---- MODULE Spec2Model ----
(***************************************************************************)
(* HumanSign: the keystroke capture pipeline of the browser extension.    *)
(*                                                                         *)
(*   content script  : KeystrokeTracker (keystroke-tracker.ts) and the    *)
(*                     content script entry (CONTENT_* control listener,  *)
(*                     submit and beforeunload listeners)                 *)
(*   background      : the service worker's aggregate `state`, its        *)
(*                     message handlers and chrome.storage.session        *)
(*   popup           : PopupController.toggleRecording                    *)
(*                                                                         *)
(* Optional values (T | null) are sequences: <<>> is null, <<v>> is v.    *)
(* Times are integer milliseconds.                                         *)
(***************************************************************************)
EXTENDS Integers, Sequences, FiniteSets, TLC

VARIABLES
    tracker,    \* the KeystrokeTracker singleton's fields and pending awaits
    responses,  \* sendMessage callbacks that are ready to run in the content script
    state,      \* the service worker's in-memory SessionState
    stored,     \* chrome.storage.session["sessionState"]
    popup,      \* PopupController: position in toggleRecording and cached isRecording
    clock,      \* milliseconds since page load (performance.now())
    link,       \* how chrome.runtime.sendMessage fares in the page: "up",
                \* "silent" (no response) or "invalid" (it throws)
    env,        \* what the environment may still do (bounds the exploration)
    last        \* the last operation that ran, with what it was given

vars == <<tracker, responses, state, stored, popup, clock, link, env, last>>

----------------------------------------------------------------------------
(* Program constants *)

BATCH_SIZE == 100
FLUSH_INTERVAL_MS == 500
MIN_FLUSH_SIZE == 10
AI_IGNORE_MS == 500
AI_IN_PROGRESS_MS == 100
INPUT_KEYUP_DELAY_MS == 50

(* Bounds of the exploration *)

MaxInputs == 1        \* physical user actions dispatched to the page
MaxTicks == 2         \* clock advances
MaxSuspends == 1      \* service worker suspensions
MaxPopupOps == 3      \* clicks on the popup's toggle button
MaxReports == 1       \* clicks on the popup's Verify and Download buttons
EpochOffset == 1000   \* Date.now() at page load
MaxFaults == 1        \* failures of the page's link to the worker
MaxRetries == 1       \* repeated deliveries of a message
MaxMessages == 3      \* messages sent to the worker when it is modelled alone
MaxLedgerMessages == 4  \* messages that fill the ledger of the worker alone
MaxFallbackMessages == 8  \* messages of a long session that is then verified

----------------------------------------------------------------------------
(* Values *)

Null == <<>>
Some(v) == <<v>>
IsNull(o) == o = <<>>
Val(o) == o[1]

Min(a, b) == IF a < b THEN a ELSE b

\* a || b for numbers and for nullable values
OrZero(n) == IF n = 0 THEN 0 ELSE n
OrEmpty(s) == IF IsNull(s) THEN <<>> ELSE s

SessionIdOf(n) == Some(n)

\* performance.now() in the page, Date.now() in the worker
now == clock
DateNow == EpochOffset + clock

\* The keys the user presses: a printable one and a modifier.
\* KeyboardEvent.key has length 1 exactly for the printable one.
Keys == { [keyCode |-> 65, key |-> "a"], [keyCode |-> 16, key |-> "Shift"] }
Printable(k) == k.key = "a"

\* Where the user types: an editor element (ProseMirror, contenteditable,
\* textarea) or the rest of the page.
Targets == {"editor", "page"}

\* Clipboard texts and assistant insertions, by length.
PasteLengths == {0, 3}
AiLengths == {5, 25}
\* 3 + Math.random() * 2 and 2 + Math.random() * 2, in whole milliseconds;
\* one draw per burst.
AiDwellTimes == {3, 4}
AiFlightTimes == {2}

KeystrokeEvent(type, code, char, ts, method) ==
    [event_type |-> type, key_code |-> code, key_char |-> char,
     client_timestamp |-> ts, input_method |-> method]


PasteEvent(n, ts) ==
    [event_type |-> "paste", pasted_length |-> n, client_timestamp |-> ts]

\* An ExtensionMessage: `events` and `batch_sequence` are the payload of a
\* KEYSTROKE_BATCH, `event` that of a PASTE_EVENT, `text` the length of the
\* text content of a VERIFY_SESSION, `textContent` the text content of a
\* DOWNLOAD_COMBINED (a sequence of characters).  `id` pairs the message with
\* its callback and `awaited` says whether a caller waits for the response.
Msg(id, type, sid, evs, seq, ev, awaited) ==
    [id |-> id, type |-> type, session_id |-> sid, events |-> evs,
     batch_sequence |-> seq, event |-> ev, awaited |-> awaited, text |-> 0,
     textContent |-> <<>>]

----------------------------------------------------------------------------
(* KeystrokeTracker.  Every operator takes and returns the tracker's record *)
(* extended with `chan`, the messages it hands to chrome.runtime.          *)

InitTracker ==
    [events |-> <<>>, pasteEvents |-> <<>>, sessionId |-> Null,
     batchSequence |-> 0, isTracking |-> FALSE, flushTimeoutId |-> Null,
     lastFlushTime |-> 0, lastInputTime |-> 0,
     totalTypedChars |-> 0, totalPastedChars |-> 0,
     aiInsertInProgress |-> FALSE, aiInsertIgnoreUntil |-> 0,
     lastAiInsertLength |-> 0,
     aiTimers |-> {},            \* pending setTimeout(..., 100) of synthesizeAiBurst
     listeners |-> FALSE,        \* window and document listeners are attached
     elementListeners |-> FALSE, \* the editor element carries the handlers
     domObserver |-> FALSE,
     unloadListener |-> FALSE,   \* window carries handleBeforeUnload
     startAwait |-> Null,        \* start() awaits the START_SESSION response
     stopAwait |-> [pc |-> "none", id |-> 0],  \* where stop() is suspended
     flushAwait |-> {},          \* flush() calls awaiting their response, each
                                 \* with the message holding its eventsToSend
     nextReq |-> 1]

\* chrome.runtime.sendMessage throws once the extension context is invalidated
CanSend == link # "invalid"

\* chrome.runtime.sendMessage(message, callback), extension context valid
sendMessage(w, type, sid, evs, seq, ev, awaited) ==
    [w EXCEPT !.chan = Append(@, Msg(w.nextReq, type, sid, evs, seq, ev, awaited)),
              !.nextReq = @ + 1]

\* flush(force): the part that runs before the await; with the extension
\* context invalidated sendMessage throws and the catch block runs at once.
flush(w, force) ==
    IF IsNull(w.sessionId) \/ Len(w.events) = 0 THEN w
    ELSE IF ~force /\ Len(w.events) < MIN_FLUSH_SIZE THEN w
    ELSE LET n == Min(BATCH_SIZE, Len(w.events))
             eventsToSend == SubSeq(w.events, 1, n)
             sliced == [w EXCEPT !.events = SubSeq(w.events, n + 1, Len(w.events)),
                                 !.batchSequence = @ + 1]
         IN IF CanSend
            THEN [sendMessage(sliced, "KEYSTROKE_BATCH", w.sessionId,
                              eventsToSend, w.batchSequence, Null, TRUE)
                    EXCEPT !.flushAwait = @ \cup
                        {Msg(w.nextReq, "KEYSTROKE_BATCH", w.sessionId,
                             eventsToSend, w.batchSequence, Null, TRUE)}]
            ELSE [sliced EXCEPT !.events = eventsToSend \o sliced.events]

scheduleFlush(w) ==
    IF Len(w.events) >= BATCH_SIZE THEN flush(w, FALSE)
    ELSE IF IsNull(w.flushTimeoutId)
         THEN [w EXCEPT !.flushTimeoutId = Some(now + FLUSH_INTERVAL_MS)]
         ELSE w

handleKeyDown(w, k) ==
    IF ~w.isTracking THEN w
    ELSE scheduleFlush(
           [w EXCEPT !.totalTypedChars = IF Printable(k) THEN @ + 1 ELSE @,
                     !.events = Append(@, KeystrokeEvent("keydown", k.keyCode,
                                   IF Printable(k) THEN Some(k.key) ELSE Null,
                                   now, "none"))])

handleKeyUp(w, k) ==
    IF ~w.isTracking THEN w
    ELSE scheduleFlush(
           [w EXCEPT !.events = Append(@, KeystrokeEvent("keyup", k.keyCode,
                                   IF Printable(k) THEN Some(k.key) ELSE Null,
                                   now, "none"))])

handlePaste(w, pastedLength) ==
    IF ~w.isTracking \/ IsNull(w.sessionId) THEN w
    ELSE IF w.aiInsertInProgress \/ now < w.aiInsertIgnoreUntil THEN w
    ELSE IF pastedLength > 0
    THEN LET pasteEvent == PasteEvent(pastedLength, now)
             w1 == [w EXCEPT !.totalPastedChars = @ + pastedLength,
                             !.events = Append(@, KeystrokeEvent("paste",
                                            pastedLength, Null, now, "paste")),
                             !.pasteEvents = Append(@, pasteEvent)]
             w2 == IF CanSend
                   THEN sendMessage(w1, "PASTE_EVENT", w.sessionId,
                                    <<>>, 0, Some(pasteEvent), FALSE)
                   ELSE w1
         IN scheduleFlush(w2)
    ELSE w

\* The 2n synthetic key events of an insertion of n characters, from time ts
RECURSIVE AiKeystrokes(_, _, _, _)
AiKeystrokes(n, ts, dwellTime, flightTime) ==
    IF n = 0 THEN <<>>
    ELSE << KeystrokeEvent("keydown", 120, Some("x"), ts, "ai_assistant"),
            KeystrokeEvent("keyup", 120, Some("x"), ts + dwellTime, "ai_assistant") >>
         \o AiKeystrokes(n - 1, ts + dwellTime + flightTime, dwellTime, flightTime)

synthesizeAiBurst(w, n, dwellTime, flightTime) ==
    LET marker == KeystrokeEvent("ai_assistant", n, Null,
                                 now + n * (dwellTime + flightTime), "ai_assistant")
    IN [scheduleFlush(
          [w EXCEPT !.aiInsertInProgress = TRUE,
                    !.lastAiInsertLength = n,
                    !.aiInsertIgnoreUntil = now + AI_IGNORE_MS,
                    !.events = @ \o AiKeystrokes(n, now, dwellTime, flightTime)
                                 \o <<marker>>,
                    !.totalPastedChars = @ + n])
        EXCEPT !.aiTimers = @ \cup {now + AI_IN_PROGRESS_MS}]

\* handleWindowMessage without its check of event.source
handleWindowMessageAnySource(w, sameWindow, n, dwellTime, flightTime) ==
    IF n > 0 THEN synthesizeAiBurst(w, n, dwellTime, flightTime) ELSE w

\* event.source !== window is sameWindow = FALSE; n is event.data.text.length
\* (0 when the message has no text or another type)
handleWindowMessage(w, sameWindow, n, dwellTime, flightTime) ==
    IF ~sameWindow THEN w
    ELSE IF n > 0 THEN synthesizeAiBurst(w, n, dwellTime, flightTime)
    ELSE w

\* dataLength is event.data.length (0 for null data); the character is "a"
handleInput(w, dataLength) ==
    IF ~w.isTracking THEN w
    ELSE LET w1 == [w EXCEPT !.lastInputTime = now]
         IN IF w1.aiInsertInProgress \/ now < w1.aiInsertIgnoreUntil THEN w1
            ELSE IF dataLength = 1
            THEN scheduleFlush(
                   [w1 EXCEPT !.events = @ \o
                        << KeystrokeEvent("keydown", 97, Some("a"), now, "none"),
                           KeystrokeEvent("keyup", 97, Some("a"),
                                          now + INPUT_KEYUP_DELAY_MS, "none") >>,
                              !.totalTypedChars = @ + 1])
            ELSE w1

\* The MutationObserver callback: editors among the added nodes get the
\* keydown, keyup and paste handlers; nothing is recorded
observeDOM(w) ==
    IF w.domObserver THEN [w EXCEPT !.elementListeners = TRUE] ELSE w

attachListeners(w) ==
    [w EXCEPT !.listeners = TRUE, !.elementListeners = TRUE,
              !.unloadListener = TRUE, !.domObserver = TRUE]

detachListeners(w) ==
    [w EXCEPT !.listeners = FALSE, !.domObserver = FALSE]

stopTrackingState(w) ==
    [detachListeners(w)
       EXCEPT !.isTracking = FALSE, !.sessionId = Null, !.events = <<>>]

reset(w) ==
    [w EXCEPT !.events = <<>>, !.pasteEvents = <<>>, !.sessionId = Null,
              !.batchSequence = 0, !.isTracking = FALSE,
              !.totalTypedChars = 0, !.totalPastedChars = 0,
              !.flushTimeoutId = Null]


\* start(): up to the await of the START_SESSION response
start(w) ==
    IF w.isTracking THEN w
    ELSE LET w1 == attachListeners([w EXCEPT !.isTracking = TRUE])
         IN IF CanSend
            THEN [sendMessage(w1, "START_SESSION", Null, <<>>, 0, Null, TRUE)
                    EXCEPT !.startAwait = Some(w.nextReq)]
            ELSE stopTrackingState(w1)

\* start(): after the await
startResumed(w, response) ==
    LET w1 == [w EXCEPT !.startAwait = Null]
    IN IF response.success
       THEN scheduleFlush([w1 EXCEPT !.sessionId = response.session])
       ELSE stopTrackingState(w1)

\* stop(): after `await this.flush()`, up to the await of the END_SESSION response
stopAfterFlush(w) ==
    IF CanSend
    THEN [sendMessage(w, "END_SESSION", w.sessionId, <<>>, 0, Null, TRUE)
            EXCEPT !.stopAwait = [pc |-> "end", id |-> w.nextReq]]
    ELSE reset([w EXCEPT !.stopAwait = [pc |-> "none", id |-> 0]])

\* stop(): up to its first await that waits for a response
stop(w) ==
    IF ~w.isTracking \/ IsNull(w.sessionId) THEN w
    ELSE LET w1 == detachListeners(w)
             w2 == flush(w1, FALSE)
         IN IF w2.nextReq # w1.nextReq
            THEN [w2 EXCEPT !.flushAwait = w1.flushAwait,
                            !.stopAwait = [pc |-> "flush", id |-> w1.nextReq]]
            ELSE stopAfterFlush(w2)

\* flush(): after the await of a response (sendMessage resolves also when
\* there was no response, so the catch block is not entered here)
flushResumed(w) == [w EXCEPT !.lastFlushTime = now]

\* stop(): resumed by a response
stopResumed(w) ==
    IF w.stopAwait.pc = "flush"
    THEN stopAfterFlush(flushResumed(w))
    ELSE reset([w EXCEPT !.stopAwait = [pc |-> "none", id |-> 0]])

----------------------------------------------------------------------------
(* The service worker *)

InitState ==
    [sessionId |-> Null, domain |-> Null, keystrokes |-> <<>>,
     pasteEvents |-> <<>>, totalTypedChars |-> 0, totalPastedChars |-> 0,
     totalAiChars |-> 0, startTime |-> Null, isRecording |-> FALSE,
     signatureCount |-> 0, lastVerification |-> Null]

\* chrome.storage.session.set({ sessionState: state }): the stored copy
saveState(s) ==
    Some([sessionId |-> s.sessionId, domain |-> s.domain,
          keystrokes |-> s.keystrokes, pasteEvents |-> s.pasteEvents,
          totalTypedChars |-> s.totalTypedChars,
          totalPastedChars |-> s.totalPastedChars,
          totalAiChars |-> s.totalAiChars, startTime |-> s.startTime,
          isRecording |-> s.isRecording, signatureCount |-> s.signatureCount,
          lastVerification |-> s.lastVerification])

\* A faulty restore that forgets the assistant counter; the round-trip
\* property is tested against it.
restoreStateWithoutAi(s, st) ==
    IF IsNull(st) THEN s
    ELSE [Val(st) EXCEPT !.totalAiChars = 0]

\* restoreState(): `s` is the in-memory state, `st` the storage entry
restoreState(s, st) ==
    IF IsNull(st) THEN s
    ELSE LET v == Val(st)
         IN [sessionId |-> v.sessionId, domain |-> v.domain,
             keystrokes |-> OrEmpty(v.keystrokes),
             pasteEvents |-> OrEmpty(v.pasteEvents),
             totalTypedChars |-> OrZero(v.totalTypedChars),
             totalPastedChars |-> OrZero(v.totalPastedChars),
             totalAiChars |-> OrZero(v.totalAiChars),
             startTime |-> v.startTime, isRecording |-> v.isRecording,
             signatureCount |-> v.signatureCount,
             lastVerification |-> v.lastVerification]

\* n / d as a fraction in units of 1/10000 (d > 0)
Ratio(n, d) == (n * 10000) \div d

Verification(label, verdict, confidence, isHuman) ==
    Some([class_label |-> label, verdict |-> verdict,
          confidence |-> confidence, is_human |-> isHuman])

\* seq[lo] + ... + seq[hi]
RECURSIVE SumRange(_, _, _)
SumRange(seq, lo, hi) ==
    IF lo > hi THEN 0
    ELSE IF lo = hi THEN seq[lo]
    ELSE LET mid == (lo + hi) \div 2
         IN SumRange(seq, lo, mid) + SumRange(seq, mid + 1, hi)

Sum(seq) == SumRange(seq, 1, Len(seq))

\* Characters a batch adds to totalTypedChars (one per keydown that carries a
\* character and is not synthetic) and to totalAiChars (key_code || 1 per
\* volume marker)
TypedCharsFrom(evs) ==
    Cardinality({i \in 1..Len(evs) :
                   /\ evs[i].event_type = "keydown"
                   /\ ~IsNull(evs[i].key_char)
                   /\ evs[i].input_method # "ai_assistant"})

AiCharsFrom(evs) ==
    Sum([i \in 1..Len(evs) |->
           IF evs[i].event_type = "ai_assistant"
           THEN (IF evs[i].key_code = 0 THEN 1 ELSE evs[i].key_code)
           ELSE 0])

\* case "START_SESSION": the remote branch and the local fallback make the same
\* assignments; `id` is session.id or crypto.randomUUID()
StartSession(s, id, domain) ==
    [s EXCEPT !.sessionId = id, !.domain = Some(domain),
              !.startTime = Some(DateNow), !.isRecording = TRUE,
              !.keystrokes = <<>>, !.pasteEvents = <<>>,
              !.totalTypedChars = 0, !.totalPastedChars = 0]

\* The real-time verdict a KEYSTROKE_BATCH leaves in lastVerification
BatchVerdict(s1, totalChars) ==
    IF totalChars > 0
    THEN IF 10 * s1.totalPastedChars > totalChars
         THEN [s1 EXCEPT !.lastVerification = Verification(
                  IF 2 * s1.totalPastedChars > totalChars
                  THEN "paste" ELSE "paste_detected",
                  Some("paste_detected"),
                  Ratio(s1.totalPastedChars, totalChars), FALSE)]
         ELSE IF 10 * s1.totalAiChars > totalChars
         THEN [s1 EXCEPT !.lastVerification = Verification(
                  "ai_assisted", Some("ai_assisted"),
                  Ratio(s1.totalAiChars, totalChars), FALSE)]
         ELSE IF 10 * s1.totalTypedChars >= 9 * totalChars
         THEN [s1 EXCEPT !.lastVerification = Verification(
                  "human_organic", Some("human_verified"),
                  Ratio(s1.totalTypedChars, totalChars), TRUE)]
         ELSE s1
    ELSE s1

TotalChars(s) == s.totalTypedChars + s.totalPastedChars + s.totalAiChars

\* case "KEYSTROKE_BATCH": push the events, count them, set the verdict
BatchCounted(s, m) ==
    [s EXCEPT !.keystrokes = @ \o m.events,
              !.totalTypedChars = @ + TypedCharsFrom(m.events),
              !.totalAiChars = @ + AiCharsFrom(m.events)]

BatchVerified(s1) == BatchVerdict(s1, TotalChars(s1))

KeystrokeBatch(s, m) == BatchVerified(BatchCounted(s, m))

\* The verdict a PASTE_EVENT leaves in lastVerification
PasteVerdict(s1, totalChars) ==
    IF totalChars > 0 /\ 10 * s1.totalPastedChars > totalChars
    THEN [s1 EXCEPT !.lastVerification = Verification(
             IF 2 * s1.totalPastedChars > totalChars
             THEN "paste" ELSE "paste_detected",
             Some("paste_detected"),
             Min(5000 + Ratio(s1.totalPastedChars, totalChars) \div 2, 9900),
             FALSE)]
    ELSE s1

\* case "PASTE_EVENT": push the event, count it, set the verdict
PasteCounted(s, m) ==
    [s EXCEPT !.pasteEvents = Append(@, Val(m.event)),
              !.totalPastedChars = @ + Val(m.event).pasted_length]

PasteVerified(s1) == PasteVerdict(s1, TotalChars(s1))

PasteEventMsg(s, m) == PasteVerified(PasteCounted(s, m))

\* calculateStats(): the index of the first keyup for `code` after event i
\* (0 when there is none)
MatchingKeyup(evs, code, i) ==
    LET IsMatch(j) == evs[j].event_type = "keyup" /\ evs[j].key_code = code
        first == {j \in (i + 1)..Len(evs) :
                    IsMatch(j) /\ \A k \in (i + 1)..(j - 1) : ~IsMatch(k)}
    IN IF first = {} THEN 0 ELSE CHOOSE j \in first : TRUE

\* calculateStats(): lastKeyup when the loop reaches event i
LastKeyup(evs, i) ==
    LET prev == {j \in 1..(i - 1) :
                   /\ evs[j].event_type = "keyup"
                   /\ \A k \in (j + 1)..(i - 1) : evs[k].event_type # "keyup"}
    IN IF prev = {} THEN 0 ELSE evs[CHOOSE j \in prev : TRUE].client_timestamp

Pushed(opts) ==
    LET kept == SelectSeq(opts, LAMBDA o : ~IsNull(o))
    IN [i \in 1..Len(kept) |-> Val(kept[i])]

DwellTimes(evs) ==
    Pushed([i \in 1..Len(evs) |->
              LET j == IF evs[i].event_type = "keydown"
                       THEN MatchingKeyup(evs, evs[i].key_code, i) ELSE 0
              IN IF j > 0
                 THEN Some(evs[j].client_timestamp - evs[i].client_timestamp)
                 ELSE Null])

FlightTimes(evs) ==
    Pushed([i \in 1..Len(evs) |->
              IF evs[i].event_type = "keydown" /\ LastKeyup(evs, i) > 0
              THEN Some(evs[i].client_timestamp - LastKeyup(evs, i))
              ELSE Null])

KeystrokeCount(s) ==
    Cardinality({i \in 1..Len(s.keystrokes) : s.keystrokes[i].event_type = "keydown"})

\* min(0.5 + ratio * 0.5, 0.99) and min(0.7 + ratio * 0.3, 0.99)
ForeignConfidence(ratio) == Min(5000 + ratio \div 2, 9900)
HumanConfidence(ratio) == Min(7000 + (3 * ratio) \div 10, 9900)

\* calculateStats(): currentVerdict and currentConfidence
CurrentVerdict(s, totalChars, keystrokeCount) ==
    IF totalChars = 0 /\ keystrokeCount = 0
    THEN [v |-> "waiting", c |-> 0]
    ELSE IF totalChars < 20
    THEN [v |-> "waiting", c |-> Min(Ratio(totalChars, 20), 9000)]
    ELSE IF 10 * s.totalPastedChars > totalChars
    THEN [v |-> IF 2 * s.totalPastedChars > totalChars
                THEN "paste" ELSE "paste_detected",
          c |-> ForeignConfidence(Ratio(s.totalPastedChars, totalChars))]
    ELSE IF 10 * s.totalAiChars > totalChars
    THEN [v |-> "ai_assisted",
          c |-> ForeignConfidence(Ratio(s.totalAiChars, totalChars))]
    ELSE IF 10 * s.totalTypedChars >= 9 * totalChars
    THEN [v |-> "human_organic",
          c |-> HumanConfidence(Ratio(s.totalTypedChars, totalChars))]
    ELSE IF IsNull(s.lastVerification)
    THEN [v |-> "unknown", c |-> 5000]
    ELSE [v |-> Val(s.lastVerification).class_label,
          c |-> IF Val(s.lastVerification).confidence = 0 THEN 5000
                ELSE Val(s.lastVerification).confidence]

StatsRecord(s, totalChars, keystrokeCount, verdict) ==
    [keystrokeCount |-> keystrokeCount,
     dwellTimes |-> DwellTimes(s.keystrokes),
     flightTimes |-> FlightTimes(s.keystrokes),
     durationMs |-> IF IsNull(s.startTime) THEN 0 ELSE DateNow - Val(s.startTime),
     sessionId |-> s.sessionId, isRecording |-> s.isRecording,
     signatureCount |-> s.signatureCount,
     totalTypedChars |-> s.totalTypedChars,
     totalPastedChars |-> s.totalPastedChars,
     totalAiChars |-> s.totalAiChars,
     pasteRatio |-> IF totalChars > 0 THEN Ratio(s.totalPastedChars, totalChars)
                    ELSE 0,
     aiRatio |-> IF totalChars > 0 THEN Ratio(s.totalAiChars, totalChars) ELSE 0,
     pasteCount |-> Len(s.pasteEvents),
     currentVerdict |-> verdict.v, currentConfidence |-> verdict.c]

StatsOf(s, totalChars, keystrokeCount) ==
    StatsRecord(s, totalChars, keystrokeCount,
                CurrentVerdict(s, totalChars, keystrokeCount))

\* calculateStats().  Averages are kept as their list, the duration in
\* milliseconds; ratios and confidences are in units of 1/10000.
calculateStats(s) == StatsOf(s, TotalChars(s), KeystrokeCount(s))

\* What the API answers to a verification request
RemoteResults ==
    { [verdict |-> "human_verified", confidence_score |-> 9000, is_human |-> TRUE],
      [verdict |-> "ai_generated", confidence_score |-> 2000, is_human |-> FALSE] }

\* The services a handler calls: `id` is the session id the API (or
\* crypto.randomUUID in the fallback) hands out, `up` whether the API answers,
\* `result` its verification result, `crypto` whether signing succeeds
\* `key` is the key pair crypto.subtle.generateKey returns next
Api(id, up, result, crypto) ==
    [id |-> id, up |-> up, result |-> result, crypto |-> crypto, key |-> 0]

DefaultResult == CHOOSE r \in RemoteResults : r.is_human

\* START_SESSION: the API answers or not
StartApis == { Api(Null, up, DefaultResult, TRUE) : up \in BOOLEAN }

\* VERIFY_SESSION: the API is down, or answers with one of its results
VerifyApis ==
    { Api(Null, FALSE, DefaultResult, TRUE) }
    \cup { Api(Null, TRUE, result, TRUE) : result \in RemoteResults }

\* DOWNLOAD_COMBINED: signing succeeds or throws
DownloadApis == { Api(Null, TRUE, DefaultResult, crypto) : crypto \in BOOLEAN }

\* case "VERIFY_SESSION": the typing quality checks of the catch block
HasNormalDwell(dwellSum, dwellCount) ==
    dwellCount > 0 /\ dwellSum > 30 * dwellCount /\ dwellSum < 500 * dwellCount

HasNormalFlight(flightSum, flightCount) ==
    flightCount > 0 /\ flightSum > 50 * flightCount /\ flightSum < 1000 * flightCount

HasReasonableWpm(stats) ==
    /\ stats.durationMs > 0
    /\ stats.keystrokeCount * 60000 > 25 * stats.durationMs
    /\ stats.keystrokeCount * 60000 < 750 * stats.durationMs

\* case "VERIFY_SESSION": the catch block (local verification)
LocalVerdict(stats) ==
    IF stats.pasteRatio > 1000 \/ stats.totalPastedChars > 50
    THEN Verification(IF stats.pasteRatio > 5000 THEN "paste" ELSE "paste_detected",
                      Null, ForeignConfidence(stats.pasteRatio), FALSE)
    ELSE IF stats.aiRatio > 1000 \/ stats.totalAiChars > 50
    THEN Verification("ai_assisted", Null, ForeignConfidence(stats.aiRatio), FALSE)
    ELSE IF /\ stats.keystrokeCount > 20
            /\ HasNormalDwell(Sum(stats.dwellTimes), Len(stats.dwellTimes))
            /\ HasNormalFlight(Sum(stats.flightTimes), Len(stats.flightTimes))
            /\ HasReasonableWpm(stats)
    THEN Verification("human_organic", Null,
                      8000 + Min(2000, stats.keystrokeCount * 20), TRUE)
    ELSE Verification("unknown", Null, 3000, FALSE)

LocalVerification(s) == LocalVerdict(calculateStats(s))

\* case "VERIFY_SESSION", given a session id
VerifySession(s, m, api) ==
    IF ~api.up THEN [s EXCEPT !.lastVerification = LocalVerification(s)]
    ELSE IF m.text >= 50
    THEN [s EXCEPT !.lastVerification = Verification(
             api.result.verdict, Null, api.result.confidence_score,
             api.result.is_human)]
    ELSE [s EXCEPT !.lastVerification = Verification(
             IF api.result.is_human THEN "human_organic" ELSE "unknown", Null,
             api.result.confidence_score, api.result.is_human)]

\* case "DOWNLOAD_COMBINED": the classification written into the report
ClassificationOf(s, totalChars) ==
    IF totalChars > 20
    THEN IF 10 * s.totalPastedChars > totalChars
         THEN Verification(IF 2 * s.totalPastedChars > totalChars
                           THEN "paste" ELSE "paste_detected", Null,
                           ForeignConfidence(Ratio(s.totalPastedChars, totalChars)),
                           FALSE)
         ELSE IF 10 * s.totalAiChars > totalChars
         THEN Verification("ai_assisted", Null,
                           ForeignConfidence(Ratio(s.totalAiChars, totalChars)),
                           FALSE)
         ELSE IF 10 * s.totalTypedChars >= 9 * totalChars
         THEN Verification("human_organic", Null,
                           HumanConfidence(Ratio(s.totalTypedChars, totalChars)),
                           TRUE)
         ELSE IF IsNull(s.lastVerification)
         THEN Verification("unknown", Null, 5000, FALSE)
         ELSE Verification(Val(s.lastVerification).class_label, Null,
                           IF Val(s.lastVerification).confidence = 0 THEN 5000
                           ELSE Val(s.lastVerification).confidence,
                           Val(s.lastVerification).is_human)
    ELSE Verification("unverified", Null, 0, FALSE)

Classification(s) == ClassificationOf(s, TotalChars(s))

\* Math.round(a / b) for b > 0
Round(a, b) == (2 * a + b) \div (2 * b)

Average(values) ==
    IF Len(values) > 0 THEN Round(Sum(values), Len(values)) ELSE 0

\* createHistogram(values, bins, min, max), for max - min a multiple of bins
BinIndex(v, bins, min, max) ==
    LET floor == (v - min) \div ((max - min) \div bins)
    IN Min(bins - 1, IF floor < 0 THEN 0 ELSE floor)

createHistogram(values, bins, min, max) ==
    [b \in 1..bins |->
        Cardinality({i \in DOMAIN values :
                       BinIndex(values[i], bins, min, max) = b - 1})]

\* crypto.subtle.digest("SHA-256", ...) in hexadecimal, taken as free of
\* collisions: the digest stands for the text it was computed from
SHA256(text) == << "sha256", text >>

\* Key and signature material.  A string is the bytes it encodes, with
\* base64 = TRUE when it is their base64 encoding; `over` is what a signature
\* was computed over.
Bytes(kind, key, over) ==
    [kind |-> kind, key |-> key, over |-> over, base64 |-> FALSE]

btoa(bytes) == Some([bytes EXCEPT !.base64 = TRUE])

\* atob throws (Null) on a string that is not base64
atob(string) ==
    IF Val(string).base64 THEN Some([Val(string) EXCEPT !.base64 = FALSE])
    ELSE Null

\* crypto.subtle.generateKey: the k-th key pair the browser draws
generateKey(k) == [privateKey |-> k, publicKey |-> k]

exportKey(publicKey) == Bytes("spki", publicKey, Null)

\* crypto.subtle.importKey("spki", ...) throws (Null) on anything else
importKey(bytes) == IF bytes.kind = "spki" THEN Some(bytes.key) ELSE Null

\* ECDSA taken as unforgeable: a signature verifies under the public key of
\* the pair that made it, over the data it was made over, and not otherwise
subtleSign(privateKey, data) == Bytes("signature", privateKey, Some(data))

subtleVerify(publicKey, signature, data) ==
    /\ signature.kind = "signature"
    /\ signature.key = publicKey
    /\ signature.over = Some(data)

\* dataToSign without the content hash
dataToSignMetricsOnly(humanSignData) ==
    << "metrics", humanSignData.metrics,
       "session_id", humanSignData.session.id >>

\* JSON.stringify({ content_hash, metrics, session_id }): keys in this order
dataToSign(humanSignData) ==
    << "content_hash", humanSignData.content_hash,
       "metrics", humanSignData.metrics,
       "session_id", humanSignData.session.id >>

Metrics(s, stats, textContent) ==
    [total_keystrokes |-> stats.keystrokeCount,
     avg_dwell_ms |-> Average(stats.dwellTimes),
     avg_flight_ms |-> Average(stats.flightTimes),
     wpm |-> IF stats.durationMs > 0
             THEN Round(stats.keystrokeCount * 12000, stats.durationMs) ELSE 0,
     text_length |-> Len(textContent),
     total_typed_chars |-> s.totalTypedChars,
     total_pasted_chars |-> s.totalPastedChars,
     total_ai_chars |-> s.totalAiChars]

\* classificationData: the classification with its three ratios
ClassificationData(s, c, totalChars) ==
    [verdict |-> c.class_label, class_label |-> c.class_label,
     confidence |-> c.confidence, is_human |-> c.is_human,
     paste_ratio |-> IF totalChars > 20 THEN Ratio(s.totalPastedChars, totalChars)
                     ELSE 0,
     ai_ratio |-> IF totalChars > 20 THEN Ratio(s.totalAiChars, totalChars)
                  ELSE 0,
     human_ratio |-> IF totalChars > 20 THEN Ratio(s.totalTypedChars, totalChars)
                     ELSE 10000]

\* The metadata before it is signed.  crypto.randomUUID() is -key.
Unsigned(s, stats, textContent, api) ==
    [version |-> "1.0", generated_at |-> DateNow,
     session |-> [id |-> IF IsNull(s.sessionId) THEN 0 - api.key
                         ELSE Val(s.sessionId),
                  domain |-> IF IsNull(s.domain) THEN "unknown" ELSE Val(s.domain),
                  duration_ms |-> stats.durationMs],
     metrics |-> Metrics(s, stats, textContent),
     classification |-> ClassificationData(s, Val(Classification(s)), TotalChars(s)),
     timing_data |-> [dwell_histogram |->
                          createHistogram(stats.dwellTimes, 10, 0, 200),
                      flight_histogram |->
                          createHistogram(stats.flightTimes, 10, 0, 300)],
     content_hash |-> SHA256(textContent),
     signature |-> [algorithm |-> "ECDSA-P256-SHA256", public_key |-> Null,
                    signature_value |-> Null, signed_at |-> DateNow]]

Signed(data, keyPair) ==
    [data EXCEPT !.signature.public_key = btoa(exportKey(keyPair.publicKey)),
                 !.signature.signature_value =
                     btoa(subtleSign(keyPair.privateKey, dataToSign(data)))]

\* case "DOWNLOAD_COMBINED": the metadata.humanSign of the bundle.  When the
\* crypto calls throw, the metadata goes out without key and signature.
humanSignData(s, textContent, api) ==
    IF api.crypto
    THEN Signed(Unsigned(s, calculateStats(s), textContent, api),
                generateKey(api.key))
    ELSE Unsigned(s, calculateStats(s), textContent, api)

\* The ZIP handed to chrome.downloads.download (README.txt left out)
Bundle(s, m, api) ==
    [document |-> m.textContent,
     metadata |-> Some(humanSignData(s, m.textContent, api))]

\* case "DOWNLOAD_COMBINED": the effect on the aggregate
DownloadCombined(s, api) ==
    IF api.crypto THEN [s EXCEPT !.signatureCount = @ + 1] ELSE s

Reply(s, st, success, session) ==
    [state |-> s, stored |-> st, success |-> success, session |-> session,
     file |-> Null]

Downloaded(s, st, m, api) ==
    [Reply(DownloadCombined(s, api), st, TRUE, Null)
        EXCEPT !.file = Some(Bundle(s, m, api))]

\* `await saveState()` and the handler's successful response
Saved(s1, session) == Reply(s1, saveState(s1), TRUE, session)

Started(s1) == Saved(s1, s1.sessionId)

\* handleMessage: `st` is the storage entry, `api` the services it calls.
\* A handler runs to its response without another message in between.
handleMessage(s, st, m, api) ==
    CASE m.type = "START_SESSION" -> Started(StartSession(s, api.id, "host"))
      [] m.type = "END_SESSION" -> Saved([s EXCEPT !.isRecording = FALSE], Null)
      [] m.type = "KEYSTROKE_BATCH" -> Saved(KeystrokeBatch(s, m), Null)
      [] m.type = "PASTE_EVENT" -> Saved(PasteEventMsg(s, m), Null)
      [] m.type = "VERIFY_SESSION" ->
           IF IsNull(m.session_id) /\ IsNull(s.sessionId)
           THEN Reply(s, st, FALSE, Null)
           ELSE Reply(VerifySession(s, m, api), st, TRUE, Null)
      [] m.type = "GET_STATS" -> Reply(s, st, TRUE, Null)
      [] m.type = "STOP_RECORDING" ->
           Reply([s EXCEPT !.isRecording = FALSE], st, TRUE, Null)
      [] m.type = "DOWNLOAD_COMBINED" -> Downloaded(s, st, m, api)
      [] OTHER -> Reply(s, st, FALSE, Null)

\* The onMessage listener: restore first when the worker holds no session
process(s, st, m, api) ==
    handleMessage(IF IsNull(s.sessionId) THEN restoreState(s, st) ELSE s,
                  st, m, api)

----------------------------------------------------------------------------
(* The system *)

\* The operation that ran last: its name, the last message the worker handled
\* in it (if any) and, for a resumed await, whether the response was a success
Step(op, msg, ok) == [op |-> op, msg |-> msg, ok |-> ok]

\* The decoder page: its React state, and which upload it was given
InitDecoder ==
    [data |-> Null, documentContent |-> <<>>, verificationStatus |-> "none",
     thrown |-> FALSE, upload |-> Null]

\* Env: what the environment may still do, what it has done, and what it
\* holds: the bundles chrome.downloads saved, the decoder page, and the
\* processed keystrokes of the server's feature extractor with its last
\* burst analysis
InitEnv(inputs, ticks, suspends, popupOps, reports, faults, retries) ==
    [inputs |-> inputs, ticks |-> ticks, suspends |-> suspends,
     popupOps |-> popupOps, reports |-> reports, faults |-> faults,
     retries |-> retries,
     sessions |-> 0, unloaded |-> FALSE, ended |-> FALSE,
     files |-> <<>>, decoder |-> InitDecoder,
     keystrokes |-> <<>>, bursts |-> Null]


InitWith(e) ==
    /\ tracker = InitTracker
    /\ responses = {}
    /\ state = InitState
    /\ stored = Null
    /\ popup = [pc |-> "idle", isRecording |-> FALSE]
    /\ clock = 0
    /\ link = "up"
    /\ env = e
    /\ last = Step("init", Null, TRUE)

Init == InitWith(InitEnv(MaxInputs, MaxTicks, MaxSuspends, MaxPopupOps, MaxReports,
                         0, 0))

\* The services as the worker finds them when it handles its next message
Service(b, api) ==
    [api EXCEPT !.id = SessionIdOf(b.sessions + 1), !.key = Len(b.files) + 1]

DefaultApi == Api(Null, TRUE, DefaultResult, TRUE)

\* The worker after its listener has answered message m with r
Answered(b, m, r) ==
    [state |-> r.state, stored |-> r.stored,
     responses |-> IF m.awaited
                   THEN b.responses \cup {[id |-> m.id, success |-> r.success,
                                           session |-> r.session]}
                   ELSE b.responses,
     sessions |-> IF m.type = "START_SESSION" THEN b.sessions + 1 ELSE b.sessions,
     ended |-> IF m.type = "START_SESSION" THEN FALSE
               ELSE IF m.type \in {"END_SESSION", "STOP_RECORDING"} THEN TRUE
               ELSE b.ended,
     files |-> IF IsNull(r.file) THEN b.files ELSE Append(b.files, Val(r.file)),
     msg |-> Some(m)]

\* The worker receives message m: the state, the storage entry and the
\* callbacks after the listener has run.  A message that is not heard gets no
\* response and its callback runs with `undefined`.
Receive(b, m, api, heard) ==
    IF ~heard
    THEN [b EXCEPT !.responses = IF m.awaited
                     THEN @ \cup {[id |-> m.id, success |-> FALSE, session |-> Null]}
                     ELSE @]
    ELSE Answered(b, m, process(b.state, b.stored, m, Service(b, api)))

RECURSIVE Deliver(_, _, _, _)
Deliver(b, msgs, i, api) ==
    IF i > Len(msgs) THEN b
    ELSE Deliver(Receive(b, msgs[i], api, link = "up"), msgs, i + 1, api)

Worker ==
    [state |-> state, stored |-> stored, responses |-> responses,
     sessions |-> env.sessions, ended |-> env.ended, files |-> env.files,
     msg |-> Null]

\* The tracker as its operators see it
World == tracker @@ [chan |-> <<>>]


\* The variables after a step that left the tracker as w and the worker as b
Becomes(w, b, e, step) ==
    /\ tracker' = [f \in DOMAIN tracker |-> w[f]]
    /\ state' = b.state
    /\ stored' = b.stored
    /\ responses' = b.responses
    /\ env' = [e EXCEPT !.sessions = b.sessions, !.ended = b.ended,
                         !.files = b.files]
    /\ last' = [step EXCEPT !.msg = b.msg]

\* A step of the page: the tracker becomes w, the messages it sent reach the
\* worker in order, the environment becomes e
Commit(w, op, ok, rs, e, api) ==
    Becomes(w, Deliver([Worker EXCEPT !.responses = rs], w.chan, 1, api), e,
            Step(op, Null, ok))

PageAlive == ~env.unloaded

\* One physical action reaches the handlers once per listener that
\* attachListeners / attachToContentEditables registered on its path.
OnWindow(w) == w.listeners
OnDocument(w) == w.listeners
OnElement(w, target) == target = "editor" /\ w.elementListeners

Paths(w, target) ==
    (IF OnWindow(w) THEN 1 ELSE 0) + (IF OnDocument(w) THEN 1 ELSE 0)
    + (IF OnElement(w, target) THEN 1 ELSE 0)

DispatchKeyDown(w, k, target) ==
    LET w1 == IF OnWindow(w) THEN handleKeyDown(w, k) ELSE w
        w2 == IF OnDocument(w1) THEN handleKeyDown(w1, k) ELSE w1
    IN IF OnElement(w2, target) THEN handleKeyDown(w2, k) ELSE w2

DispatchKeyUp(w, k, target) ==
    LET w1 == IF OnWindow(w) THEN handleKeyUp(w, k) ELSE w
        w2 == IF OnDocument(w1) THEN handleKeyUp(w1, k) ELSE w1
    IN IF OnElement(w2, target) THEN handleKeyUp(w2, k) ELSE w2

DispatchPaste(w, n, target) ==
    LET w1 == IF OnWindow(w) THEN handlePaste(w, n) ELSE w
        w2 == IF OnDocument(w1) THEN handlePaste(w1, n) ELSE w1
    IN IF OnElement(w2, target) THEN handlePaste(w2, n) ELSE w2

\* An event nobody listens to, or that its handlers ignore, changes nothing.
UserInput(w, op, paths) ==
    /\ PageAlive
    /\ env.inputs > 0
    /\ paths > 0
    /\ w # World
    /\ Commit(w, op, TRUE, responses, [env EXCEPT !.inputs = @ - 1], DefaultApi)
    /\ UNCHANGED <<popup, clock, link>>

KeyDown ==
    \E k \in Keys, target \in Targets :
        UserInput(DispatchKeyDown(World, k, target), "keydown", Paths(tracker, target))

KeyUp ==
    \E k \in Keys, target \in Targets :
        UserInput(DispatchKeyUp(World, k, target), "keyup", Paths(tracker, target))

Paste ==
    \E n \in PasteLengths, target \in Targets :
        UserInput(DispatchPaste(World, n, target), "paste", Paths(tracker, target))

\* an `input' or a `beforeinput' event reaching the document listener
InputEvent ==
    \E dataLength \in {0, 1, 2} :
        UserInput(handleInput(World, dataLength), "input",
                  IF OnDocument(tracker) THEN 1 ELSE 0)

\* a `message' event on the window
WindowMessage ==
    \E sameWindow \in BOOLEAN, n \in AiLengths \cup {0},
       dwellTime \in AiDwellTimes, flightTime \in AiFlightTimes :
        UserInput(handleWindowMessage(World, sameWindow, n, dwellTime, flightTime),
                  IF sameWindow THEN "aiMessage" ELSE "foreignMessage",
                  IF OnWindow(tracker) THEN 1 ELSE 0)

Internal(w, op, ok, rs, e) ==
    /\ PageAlive
    /\ Commit(w, op, ok, rs, e, DefaultApi)
    /\ UNCHANGED <<popup, clock, link>>

\* the setTimeout callback of scheduleFlush
FlushTimer ==
    /\ ~IsNull(tracker.flushTimeoutId)
    /\ clock >= Val(tracker.flushTimeoutId)
    /\ Internal([flush(World, FALSE) EXCEPT !.flushTimeoutId = Null],
                "flushTimer", TRUE, responses, env)

\* the setTimeout callback of synthesizeAiBurst
AiTimer ==
    \E d \in tracker.aiTimers :
        /\ clock >= d
        /\ Internal([World EXCEPT !.aiInsertInProgress = FALSE,
                                  !.aiTimers = @ \ {d}],
                    "aiTimer", TRUE, responses, env)

TimerDue ==
    /\ PageAlive
    /\ \/ ~IsNull(tracker.flushTimeoutId) /\ clock >= Val(tracker.flushTimeoutId)
       \/ \E d \in tracker.aiTimers : clock >= d

\* start() resumes with the response to START_SESSION
StartResolved ==
    \E r \in responses :
        /\ tracker.startAwait = Some(r.id)
        /\ Internal(startResumed(World, r), "startResolved", r.success,
                    responses \ {r}, env)

\* a flush() started by a timer or a handler resumes with its response
FlushResolved ==
    \E r \in responses, m \in tracker.flushAwait :
        /\ r.id = m.id
        /\ PageAlive
        /\ tracker' = [flushResumed(tracker) EXCEPT !.flushAwait = @ \ {m}]
        /\ responses' = responses \ {r}
        /\ last' = Step("flushResolved", Some(m), r.success)
        /\ UNCHANGED <<state, stored, popup, clock, link, env>>

\* stop() resumes with the response to its KEYSTROKE_BATCH or END_SESSION
StopResolved ==
    \E r \in responses :
        /\ tracker.stopAwait.pc # "none"
        /\ tracker.stopAwait.id = r.id
        /\ Internal(stopResumed(World), "stopResolved", r.success,
                    responses \ {r}, env)

\* tracker.verify(), up to the await of the response (which is only logged)
verify(w) ==
    IF IsNull(w.sessionId) \/ ~CanSend THEN w
    ELSE sendMessage(w, "VERIFY_SESSION", w.sessionId, <<>>, 0, Null, FALSE)

\* a form on the page is submitted: the content script's `submit' listener
Submit ==
    /\ PageAlive
    /\ env.inputs > 0
    /\ verify(World) # World
    /\ \E api \in VerifyApis :
         Commit(verify(World), "submit", TRUE, responses,
                [env EXCEPT !.inputs = @ - 1], api)
    /\ UNCHANGED <<popup, clock, link>>

\* The tab closes or navigates.  The content script's `beforeunload' listener
\* (registered when the script loads) calls stop(), whose continuation after
\* an immediate flush() runs before the next listener; then the tracker's
\* handleBeforeUnload runs flush(true); then the page is gone.
unload(w) ==
    IF w.unloadListener THEN flush(stop(w), TRUE) ELSE stop(w)

BeforeUnload ==
    /\ env.inputs > 0
    /\ Internal(unload(World), "beforeUnload", TRUE, responses,
                [env EXCEPT !.unloaded = TRUE, !.inputs = @ - 1])

PendingTimers ==
    (IF IsNull(tracker.flushTimeoutId) THEN {} ELSE {Val(tracker.flushTimeoutId)})
    \cup tracker.aiTimers

\* Time passes until the page's next timer is due
Tick ==
    /\ env.ticks > 0
    /\ PageAlive
    /\ PendingTimers # {}
    /\ ~TimerDue
    /\ clock' = CHOOSE t \in PendingTimers : \A u \in PendingTimers : t <= u
    /\ env' = [env EXCEPT !.ticks = @ - 1]
    /\ last' = Step("tick", Null, TRUE)
    /\ UNCHANGED <<tracker, responses, state, stored, popup, link>>

\* The browser suspends the idle worker; the script runs again on the next
\* event and calls restoreState() at its top level.
\* (A suspension that restores the very aggregate it dropped is not a step.)
Suspend ==
    /\ env.suspends > 0
    /\ state # restoreState(InitState, stored)
    /\ state' = restoreState(InitState, stored)
    /\ env' = [env EXCEPT !.suspends = @ - 1]
    /\ last' = Step("suspend", Null, TRUE)
    /\ UNCHANGED <<tracker, responses, stored, popup, clock, link>>

\* The popup's own messages always reach the worker.
PopupMsg(type, text) ==
    [Msg(0, type, Null, <<>>, 0, Null, FALSE) EXCEPT !.text = text]

PopupSend(m, api, op, e) ==
    Becomes(tracker, Receive(Worker, m, api, TRUE), e, Step(op, Null, TRUE))

\* toggleRecording, not recording: START_SESSION to the worker
PopupStart ==
    /\ popup.pc = "idle"
    /\ ~popup.isRecording
    /\ env.popupOps > 0
    /\ \E api \in StartApis :
         PopupSend(PopupMsg("START_SESSION", 0), api, "popupStart",
                   [env EXCEPT !.popupOps = @ - 1])
    /\ popup' = [popup EXCEPT !.pc = "started"]
    /\ UNCHANGED <<clock, link>>

\* toggleRecording: CONTENT_START_TRACKING runs keystrokeTracker.start()
PopupContentStart ==
    /\ popup.pc = "started"
    /\ popup' = [popup EXCEPT !.pc = "awaitStart"]
    /\ IF PageAlive
       THEN \E api \in StartApis :
              Commit(start(World), "contentStart", TRUE, responses, env, api)
       ELSE /\ last' = Step("contentStart", Null, FALSE)
            /\ UNCHANGED <<tracker, responses, state, stored, env>>
    /\ UNCHANGED <<clock, link>>

\* toggleRecording, recording: CONTENT_STOP_TRACKING runs keystrokeTracker.stop()
PopupContentStop ==
    /\ popup.pc = "idle"
    /\ popup.isRecording
    /\ env.popupOps > 0
    /\ popup' = [popup EXCEPT !.pc = "awaitStop"]
    /\ IF PageAlive
       THEN Commit(stop(World), "contentStop", TRUE, responses,
                   [env EXCEPT !.popupOps = @ - 1], DefaultApi)
       ELSE /\ last' = Step("contentStop", Null, FALSE)
            /\ env' = [env EXCEPT !.popupOps = @ - 1]
            /\ UNCHANGED <<tracker, responses, state, stored>>
    /\ UNCHANGED <<clock, link>>

\* toggleRecording: the content script has answered; STOP_RECORDING, then
\* loadState()
PopupStopRecording ==
    /\ popup.pc = "awaitStop"
    /\ ~PageAlive \/ tracker.stopAwait.pc = "none"
    /\ PopupSend(PopupMsg("STOP_RECORDING", 0), DefaultApi, "popupStop", env)
    /\ popup' = [pc |-> "idle", isRecording |-> state'.isRecording]
    /\ UNCHANGED <<clock, link>>

\* loadState(): at the end of toggleRecording and every 250 ms
PopupLoadState ==
    /\ \/ /\ popup.pc = "awaitStart"
          /\ ~PageAlive \/ IsNull(tracker.startAwait)
       \/ /\ popup.pc = "idle"
          /\ popup.isRecording # state.isRecording
    /\ PopupSend(PopupMsg("GET_STATS", 0), DefaultApi, "popupLoad", env)
    /\ popup' = [pc |-> "idle", isRecording |-> state'.isRecording]
    /\ UNCHANGED <<clock, link>>

\* updateStats enables the Verify and Download buttons on stats.keystrokeCount
HasData == KeystrokeCount(state) > 20

TextLengths == {0, 60}

PopupVerify ==
    /\ popup.pc = "idle"
    /\ HasData
    /\ env.reports > 0
    /\ \E api \in VerifyApis, text \in TextLengths :
         PopupSend(PopupMsg("VERIFY_SESSION", text), api, "popupVerify",
                   [env EXCEPT !.reports = @ - 1])
    /\ UNCHANGED <<popup, clock, link>>

PopupDownload ==
    /\ popup.pc = "idle"
    /\ HasData
    /\ env.reports > 0
    /\ \E api \in DownloadApis :
         PopupSend(PopupMsg("DOWNLOAD_COMBINED", 0), api, "popupDownload",
                   [env EXCEPT !.reports = @ - 1])
    /\ UNCHANGED <<popup, clock, link>>

Next ==
    \/ KeyDown \/ KeyUp \/ Paste \/ InputEvent \/ WindowMessage
    \/ FlushTimer \/ AiTimer \/ StartResolved \/ FlushResolved \/ StopResolved
    \/ Submit \/ BeforeUnload \/ Tick \/ Suspend
    \/ PopupStart \/ PopupContentStart \/ PopupContentStop \/ PopupStopRecording
    \/ PopupLoadState \/ PopupVerify \/ PopupDownload

Spec == Init /\ [][Next]_vars

----------------------------------------------------------------------------
(* The page's link to the worker fails *)

\* The worker stops answering the page, or the extension is reloaded and the
\* page's context is invalidated for good
LinkFault ==
    /\ env.faults > 0
    /\ link = "up"
    /\ \E l \in {"silent", "invalid"} : link' = l
    /\ env' = [env EXCEPT !.faults = @ - 1]
    /\ last' = Step("linkFault", Null, TRUE)
    /\ UNCHANGED <<tracker, responses, state, stored, popup, clock>>

LinkRestored ==
    /\ link = "silent"
    /\ link' = "up"
    /\ last' = Step("linkRestored", Null, TRUE)
    /\ UNCHANGED <<tracker, responses, state, stored, popup, clock, env>>

InitFaults == InitWith(InitEnv(MaxInputs, MaxTicks, 0, MaxPopupOps, 0, MaxFaults, 0))

NextFaults ==
    \/ KeyDown \/ KeyUp \/ Paste \/ InputEvent \/ WindowMessage
    \/ FlushTimer \/ AiTimer \/ StartResolved \/ FlushResolved \/ StopResolved
    \/ Tick
    \/ PopupStart \/ PopupContentStart \/ PopupContentStop \/ PopupStopRecording
    \/ PopupLoadState
    \/ LinkFault \/ LinkRestored

SpecFaults == InitFaults /\ [][NextFaults]_vars

----------------------------------------------------------------------------
(* A message is delivered twice *)

\* The worker's listener runs a second time on the KEYSTROKE_BATCH or
\* PASTE_EVENT it has just handled
Redeliver ==
    /\ env.retries > 0
    /\ ~IsNull(last.msg)
    /\ Val(last.msg).type \in {"KEYSTROKE_BATCH", "PASTE_EVENT"}
    /\ last.op # "flushResolved"
    /\ Becomes(tracker, Receive(Worker, [Val(last.msg) EXCEPT !.awaited = FALSE],
                                 DefaultApi, TRUE),
               [env EXCEPT !.retries = @ - 1], Step("redeliver", Null, TRUE))
    /\ UNCHANGED <<popup, clock, link>>

InitRetry == InitWith(InitEnv(MaxInputs, MaxTicks, 0, MaxPopupOps, 0, 0, MaxRetries))

NextRetry ==
    \/ KeyDown \/ KeyUp \/ Paste \/ InputEvent \/ WindowMessage
    \/ FlushTimer \/ AiTimer \/ StartResolved \/ FlushResolved \/ StopResolved
    \/ Tick
    \/ PopupStart \/ PopupContentStart \/ PopupContentStop \/ PopupStopRecording
    \/ PopupLoadState
    \/ Redeliver

SpecRetry == InitRetry /\ [][NextRetry]_vars

----------------------------------------------------------------------------
(* The service worker alone: its listener handles whatever the extension's  *)
(* pages send it, in any order                                              *)

Tracking == [World EXCEPT !.isTracking = TRUE, !.sessionId = state.sessionId]

\* Batches as the tracker builds them: one typed key, one assistant insertion
SampleBatches ==
    { handleKeyUp(handleKeyDown(Tracking, k), k).events : k \in Keys }
    \cup { synthesizeAiBurst(Tracking, 2, dwellTime, flightTime).events :
              dwellTime \in AiDwellTimes, flightTime \in AiFlightTimes }

Inbox ==
    { PopupMsg(type, 0) :
        type \in {"START_SESSION", "END_SESSION", "STOP_RECORDING",
                  "DOWNLOAD_COMBINED", "GET_STATS"} }
    \cup { PopupMsg("VERIFY_SESSION", text) : text \in TextLengths }
    \cup { Msg(0, "KEYSTROKE_BATCH", state.sessionId, evs, 0, Null, FALSE) :
              evs \in SampleBatches }
    \cup { Msg(0, "PASTE_EVENT", state.sessionId, <<>>, 0,
                Some(PasteEvent(n, now)), FALSE) : n \in PasteLengths \ {0} }

WorkerApis == StartApis \cup VerifyApis \cup DownloadApis

WorkerReceives ==
    /\ env.inputs > 0
    /\ \E m \in Inbox, api \in WorkerApis :
         PopupSend(m, api, "receive", [env EXCEPT !.inputs = @ - 1])
    /\ UNCHANGED <<popup, clock, link>>

InitWorker == InitWith(InitEnv(MaxMessages, 0, MaxSuspends, 0, 0, 0, 0))

NextWorker == WorkerReceives \/ Suspend

SpecWorker == InitWorker /\ [][NextWorker]_vars

----------------------------------------------------------------------------
(* Properties *)

\* The last step had the worker handle a message of one of these types
Handled(types) ==
    /\ last.op # "flushResolved"
    /\ ~IsNull(last.msg)
    /\ Val(last.msg).type \in types

Ledger(s) == <<s.totalTypedChars, s.totalPastedChars, s.totalAiChars>>

Recorded(s) == <<s.keystrokes, s.pasteEvents>>

IsPrefix(p, q) == Len(p) <= Len(q) /\ SubSeq(q, 1, Len(p)) = p

IsSuffix(p, q) ==
    Len(p) <= Len(q) /\ SubSeq(q, Len(q) - Len(p) + 1, Len(q)) = p

\* The characters of the actions the aggregate has recorded: one per typed
\* printable key, the length of each paste, the volume of each insertion
PastedCharsFrom(pastes) == Sum([i \in 1..Len(pastes) |-> pastes[i].pasted_length])

RecordedChars(s) ==
    TypedCharsFrom(s.keystrokes) + PastedCharsFrom(s.pasteEvents)
    + AiCharsFrom(s.keystrokes)

\* C1: in the background aggregate, at every point of the session, typed +
\* pasted + assistant equals the number of characters of the actions recorded
\* so far, each action being counted in exactly one counter: typed keys in
\* totalTypedChars, pastes in totalPastedChars, assistant insertions in
\* totalAiChars.
C1_LedgerCountsRecordedActions ==
    /\ state.totalTypedChars = TypedCharsFrom(state.keystrokes)
    /\ state.totalPastedChars = PastedCharsFrom(state.pasteEvents)
    /\ state.totalAiChars = AiCharsFrom(state.keystrokes)
    /\ TotalChars(state) = RecordedChars(state)

\* C2: one physical key press, key release or paste appends exactly one event
\* to the tracker's buffer and its character is counted once, however many
\* capture paths deliver it.
C2_OneEventPerPhysicalAction ==
    [][(/\ last'.op \in {"keydown", "keyup", "paste"}
        /\ tracker'.batchSequence = tracker.batchSequence)
       => /\ Len(tracker'.events) = Len(tracker.events) + 1
          /\ tracker'.totalTypedChars <= tracker.totalTypedChars + 1
          /\ Len(tracker'.pasteEvents) <= Len(tracker.pasteEvents) + 1]_vars

\* C3: when stop() is called on a tracking session, every event in the
\* tracker's buffer at that moment is sent to the background in a
\* KEYSTROKE_BATCH, whatever the buffer size: after the call the worker's
\* event list ends with them.
C3_StopSendsWholeBuffer ==
    [][(/\ last'.op = "contentStop"
        /\ PageAlive
        /\ tracker.isTracking
        /\ ~IsNull(tracker.sessionId))
       => IsSuffix(tracker.events, state'.keystrokes)]_vars

\* C4: when the sending of a KEYSTROKE_BATCH has failed (no response or a
\* success:false response), the events of that batch are back at the front of
\* the tracker's buffer in their original order.
C4_FailedBatchIsPutBack ==
    (last.op = "flushResolved" /\ ~last.ok)
        => IsPrefix(Val(last.msg).events, tracker.events)

\* C5: once the background has processed END_SESSION or STOP_RECORDING for a
\* session, a KEYSTROKE_BATCH or PASTE_EVENT that arrives afterwards leaves the
\* stored events, the paste events and the three ledger counters unchanged.
C5_NothingAcceptedAfterEnd ==
    [][(env.ended /\ Handled({"KEYSTROKE_BATCH", "PASTE_EVENT"})')
       => /\ Recorded(state') = Recorded(state)
          /\ Ledger(state') = Ledger(state)]_vars

\* C6: every background handler that changes the aggregate (START_SESSION,
\* END_SESSION, STOP_RECORDING, KEYSTROKE_BATCH, PASTE_EVENT, VERIFY_SESSION,
\* DOWNLOAD_COMBINED) has written the state to session storage by the time it
\* responds, so that a restore after the response yields that very state.
C6_HandlersSaveBeforeResponding ==
    Handled({"START_SESSION", "END_SESSION", "STOP_RECORDING", "KEYSTROKE_BATCH",
             "PASTE_EVENT", "VERIFY_SESSION", "DOWNLOAD_COMBINED"})
        => /\ stored = saveState(state)
           /\ restoreState(InitState, stored) = state

\* C7: restoreState on the snapshot written by saveState reproduces the
\* aggregate exactly, all eleven fields: for the aggregate as it is now, and
\* for the snapshot that storage holds.
C7_RestoreReproducesSnapshot ==
    /\ restoreState(InitState, saveState(state)) = state
    /\ ~IsNull(stored)
         => /\ restoreState(InitState, stored) = Val(stored)
            /\ saveState(restoreState(InitState, stored)) = stored

\* C7 happens: the worker was suspended and restored from a snapshot that holds
\* events, an assistant count and a verdict
C7_RestoredFromSnapshot ==
    /\ last.op = "suspend"
    /\ ~IsNull(stored)
    /\ state = Val(stored)
    /\ state.keystrokes # <<>>
    /\ state.totalAiChars > 0
    /\ ~IsNull(state.lastVerification)
    /\ state.isRecording

\* C8: a second delivery of the same KEYSTROKE_BATCH or PASTE_EVENT leaves the
\* event list, the paste list and the ledger counters as the first delivery
\* left them.
C8_RedeliveryChangesNothing ==
    [][last'.op = "redeliver"
       => /\ Recorded(state') = Recorded(state)
          /\ Ledger(state') = Ledger(state)]_vars

\* C9: after the background has handled START_SESSION, the stored event list
\* and paste list are empty and the typed, pasted and assistant counters are
\* all 0, whatever the state was before.
C9_StartResetsAggregate ==
    Handled({"START_SESSION"})
        => /\ Recorded(state) = <<(<<>>), (<<>>)>>
           /\ Ledger(state) = <<0, 0, 0>>

\* C10: a START_SESSION handled while a session is already Recording changes
\* nothing: the session id, the stored events and the ledger stay as they
\* were and no second session is created.
C10_StartWhileRecordingIsNoOp ==
    [][(state.isRecording /\ Handled({"START_SESSION"})')
       => /\ state'.sessionId = state.sessionId
          /\ Recorded(state') = Recorded(state)
          /\ Ledger(state') = Ledger(state)
          /\ env'.sessions = env.sessions]_vars

\* The neutral result: no verdict, or a waiting / insufficient-data label
NeutralLabels == {"waiting", "insufficient_data", "unverified"}

Neutral(v) == IsNull(v) \/ Val(v).class_label \in NeutralLabels

\* C11: while typed + pasted + assistant characters total fewer than 20, every
\* verdict the aggregate produces or stores is the neutral waiting result: the
\* currentVerdict of GET_STATS, the lastVerification a KEYSTROKE_BATCH or
\* PASTE_EVENT writes, the result of the local VERIFY_SESSION fallback and the
\* classification of a DOWNLOAD_COMBINED report.
C11_NoVerdictBelowGate ==
    [][TotalChars(state') < 20
       => /\ Handled({"GET_STATS"})'
               => calculateStats(state').currentVerdict = "waiting"
          /\ (/\ Handled({"KEYSTROKE_BATCH", "PASTE_EVENT"})'
              /\ state'.lastVerification # state.lastVerification)
               => Neutral(state'.lastVerification)
          /\ (/\ Handled({"VERIFY_SESSION"})'
              /\ state'.lastVerification = LocalVerification(state'))
               => Neutral(state'.lastVerification)
          /\ Handled({"DOWNLOAD_COMBINED"})'
               => Neutral(Classification(state'))]_vars

----------------------------------------------------------------------------
(* The worker's ledger filled by batches and pastes of chosen sizes *)

TypedSizes == {16, 17, 91}
PasteSizes == {2, 11}
AiSizes == {2, 9}

\* n typed printable keys, as handleKeyDown records them
TypedBatch(n) ==
    [i \in 1..n |-> KeystrokeEvent("keydown", 65, Some("a"), now + i, "none")]

LedgerInbox ==
    { Msg(0, "KEYSTROKE_BATCH", state.sessionId, TypedBatch(n), 0, Null, FALSE) :
        n \in TypedSizes }
    \cup { Msg(0, "KEYSTROKE_BATCH", state.sessionId,
                synthesizeAiBurst(Tracking, n, 3, 2).events, 0, Null, FALSE) :
              n \in AiSizes }
    \cup { Msg(0, "PASTE_EVENT", state.sessionId, <<>>, 0,
                Some(PasteEvent(n, now)), FALSE) : n \in PasteSizes }
    \cup { PopupMsg("GET_STATS", 0) }

LedgerReceives ==
    /\ env.inputs > 0
    /\ \E m \in LedgerInbox :
         PopupSend(m, DefaultApi, "receive", [env EXCEPT !.inputs = @ - 1])
    /\ UNCHANGED <<popup, clock, link>>

InitLedger == InitWith(InitEnv(MaxLedgerMessages, 0, 0, 0, 0, 0, 0))

NextLedger == LedgerReceives

SpecLedger == InitLedger /\ [][NextLedger]_vars

\* The verdict GET_STATS reports for the aggregate
StatsVerdict(s) == CurrentVerdict(s, TotalChars(s), KeystrokeCount(s)).v

PasteVerdicts == {"paste", "paste_detected"}

\* C12: for a ledger of at least 20 characters the verdict of GET_STATS is a
\* paste verdict if and only if pasted/total > 0.10 ('paste' when above 0.5,
\* else 'paste_detected'); otherwise ai_assisted if and only if
\* assistant/total > 0.10; otherwise human if and only if typed/total >= 0.90.
C12_VolumeCascade ==
    (Handled({"GET_STATS"}) /\ TotalChars(state) >= 20)
        => /\ StatsVerdict(state) \in PasteVerdicts
                <=> 10 * state.totalPastedChars > TotalChars(state)
           /\ StatsVerdict(state) = "paste"
                <=> 2 * state.totalPastedChars > TotalChars(state)
           /\ 10 * state.totalPastedChars <= TotalChars(state)
                => /\ StatsVerdict(state) = "ai_assisted"
                        <=> 10 * state.totalAiChars > TotalChars(state)
                   /\ 10 * state.totalAiChars <= TotalChars(state)
                        => (StatsVerdict(state) = "human_organic"
                              <=> 10 * state.totalTypedChars
                                    >= 9 * TotalChars(state))

----------------------------------------------------------------------------
(* A long session of the worker alone, verified with the API up or down *)

SignificantPaste == 51

FallbackInbox ==
    { PopupMsg("START_SESSION", 0),
      Msg(0, "KEYSTROKE_BATCH", state.sessionId, TypedBatch(BATCH_SIZE), 0, Null,
          FALSE),
      Msg(0, "PASTE_EVENT", state.sessionId, <<>>, 0,
          Some(PasteEvent(SignificantPaste, now)), FALSE),
      Msg(0, "VERIFY_SESSION", state.sessionId, <<>>, 0, Null, TRUE) }

FallbackReceives ==
    /\ env.inputs > 0
    /\ \E m \in FallbackInbox, api \in VerifyApis :
         PopupSend(m, api, "receive", [env EXCEPT !.inputs = @ - 1])
    /\ UNCHANGED <<popup, clock, link>>

InitFallback == InitWith(InitEnv(MaxFallbackMessages, 0, 0, 0, 0, 0, 0))

NextFallback == FallbackReceives

SpecFallback == InitFallback /\ [][NextFallback]_vars

\* The last step was a VERIFY_SESSION answered with success
Verified ==
    /\ Handled({"VERIFY_SESSION"})
    /\ \E r \in responses : r.id = Val(last.msg).id /\ r.success

\* C13: when the remote verification fails, VERIFY_SESSION answers success with
\* a local result whose verdict is the one of the volume cascade on the local
\* ledger: a paste verdict only if pasted/total > 0.10, ai_assisted only if
\* assistant/total > 0.10.  (Paste and ai_assisted labels come from the local
\* fallback alone.)
C13_LocalFallbackFollowsCascade ==
    Handled({"VERIFY_SESSION"}) /\ ~IsNull(state.sessionId)
        => /\ Verified
           /\ ~IsNull(state.lastVerification)
           /\ Val(state.lastVerification).class_label \in PasteVerdicts
                => 10 * state.totalPastedChars > TotalChars(state)
           /\ Val(state.lastVerification).class_label = "ai_assisted"
                => 10 * state.totalAiChars > TotalChars(state)

----------------------------------------------------------------------------
(* The page alone: one recording, its inputs and its timers *)

PageInputs == 1
PageTicks == 2
PageToggles == 1

InitPage == InitWith(InitEnv(PageInputs, PageTicks, 0, PageToggles, 0, 0, 0))

NextPage ==
    \/ KeyDown \/ KeyUp \/ Paste \/ InputEvent \/ WindowMessage
    \/ FlushTimer \/ AiTimer \/ StartResolved \/ FlushResolved \/ Tick
    \/ PopupStart \/ PopupContentStart \/ PopupLoadState

SpecPage == InitPage /\ [][NextPage]_vars

\* The number of assistant-tagged events among evs
AiTagged(evs) ==
    Cardinality({i \in DOMAIN evs : evs[i].input_method = "ai_assistant"})

\* What the tracker has captured: its buffers, its counters, what it sent
Captured(w) ==
    << w.events, w.pasteEvents, w.totalTypedChars, w.totalPastedChars,
       w.lastAiInsertLength, w.aiInsertInProgress, w.chan >>

\* A multi-character input, a DOM mutation, a message from another window and
\* a message without text, arriving now, leave what the tracker captured alone
OnlyMessagesInsert ==
    /\ \A dataLength \in {0, 2, 3} :
         Captured(handleInput(World, dataLength)) = Captured(World)
    /\ Captured(observeDOM(World)) = Captured(World)
    /\ \A n \in AiLengths \cup {0}, dwellTime \in AiDwellTimes,
          flightTime \in AiFlightTimes :
         /\ handleWindowMessage(World, FALSE, n, dwellTime, flightTime) = World
         /\ n = 0 => handleWindowMessage(World, TRUE, n, dwellTime, flightTime)
                        = World

\* C14: assistant-tagged events are created, and assistant volume recorded,
\* only by a same-window humanSign:aiInsert message with non-empty text; a
\* multi-character input event, a DOM mutation or a message from another
\* window appends no event and changes no counter.
C14_AssistantOnlyByExplicitMessage ==
    [][/\ (\/ AiTagged(tracker'.events) > AiTagged(tracker.events)
           \/ tracker'.lastAiInsertLength # tracker.lastAiInsertLength
           \/ tracker'.aiInsertIgnoreUntil # tracker.aiInsertIgnoreUntil)
          => last'.op = "aiMessage"
       /\ last'.op = "foreignMessage" => Captured(World)' = Captured(World)
       /\ OnlyMessagesInsert']_vars

\* An accepted insertion is in the buffer while the tracker listens
C14_AssistantInsertionRecorded ==
    /\ last.op = "aiMessage"
    /\ tracker.isTracking /\ tracker.listeners /\ tracker.domObserver
    /\ AiTagged(tracker.events) = 2 * tracker.lastAiInsertLength + 1
    /\ tracker.totalPastedChars = tracker.lastAiInsertLength
    /\ tracker.lastAiInsertLength > 0

----------------------------------------------------------------------------
(* The page alone, with an input that follows another *)

WindowInputs == 2

InitWindow == InitWith(InitEnv(WindowInputs, PageTicks, 0, PageToggles, 0, 0, 0))

SpecWindow == InitWindow /\ [][NextPage]_vars

\* The shortest ignore window the specification allows after a paste
PasteIgnoreMs == 200

\* An accepted insertion's window is open
InAiWindow == now < tracker.aiInsertIgnoreUntil

\* An accepted paste is less than PasteIgnoreMs old
InPasteWindow ==
    /\ tracker.pasteEvents # <<>>
    /\ now < tracker.pasteEvents[Len(tracker.pasteEvents)].client_timestamp
                + PasteIgnoreMs

\* C15: during the ignore window after an accepted assistant insertion, and
\* likewise during the window after an accepted clipboard paste, an input or
\* beforeinput event appends no event to the buffer and changes no counter.
C15_InputIgnoredInWindow ==
    [][(InAiWindow \/ InPasteWindow) /\ last'.op = "input"
          => Captured(World)' = Captured(World)]_vars

\* The half of C15 about assistant insertions
C15_InputIgnoredAfterInsertion ==
    [][InAiWindow /\ last'.op = "input"
          => Captured(World)' = Captured(World)]_vars

----------------------------------------------------------------------------
(* The decoder page, and the worker that signs the bundles it is given *)

\* JSON.stringify({ content_hash, metrics, session_id }) of the parsed report
dataToVerify(data) ==
    << "content_hash", data.content_hash,
       "metrics", data.metrics,
       "session_id", data.session.id >>

\* The try block of verifySignature; a throw (Null) ends in the catch
Checked(data, binaryDer, signature) ==
    IF IsNull(binaryDer) THEN "invalid"
    ELSE IF IsNull(importKey(Val(binaryDer))) THEN "invalid"
    ELSE IF IsNull(signature) THEN "invalid"
    ELSE IF subtleVerify(Val(importKey(Val(binaryDer))), Val(signature),
                         dataToVerify(data))
    THEN "valid" ELSE "invalid"

\* verifySignature(data): the status it sets, or "throws" when the exception
\* leaves it (data is the parsed JSON, Null for the JSON value null)
verifySignature(data) ==
    IF IsNull(data) THEN "throws"
    ELSE IF \/ IsNull(Val(data).signature.public_key)
            \/ IsNull(Val(data).signature.signature_value)
    THEN "none"
    ELSE Checked(Val(data), atob(Val(data).signature.public_key),
                 atob(Val(data).signature.signature_value))

\* handleFile(file) for a ZIP: the page's state after it
FileHandled(file, status, upload) ==
    IF status = "throws"
    THEN [data |-> Null, documentContent |-> file.document,
          verificationStatus |-> "none", thrown |-> TRUE, upload |-> upload]
    ELSE [data |-> file.metadata, documentContent |-> file.document,
          verificationStatus |-> status, thrown |-> FALSE, upload |-> upload]

handleFile(file, upload) ==
    FileHandled(file, verifySignature(file.metadata), upload)

MetricsFields ==
    {"total_keystrokes", "avg_dwell_ms", "avg_flight_ms", "wpm", "text_length",
     "total_typed_chars", "total_pasted_chars", "total_ai_chars"}

ClassificationFields == {"class_label", "is_human", "confidence"}

HistogramFields == {"dwell_histogram", "flight_histogram"}

SignatureFields == {"public_key", "signature_value"}

\* What may happen to a bundle between the download and the decoder
Changes ==
    {"nothing", "content_hash", "session_id", "document", "null",
     "key_not_base64", "key_not_spki", "signature_not_base64",
     "signature_garbage"}
    \cup MetricsFields \cup ClassificationFields \cup HistogramFields
    \cup SignatureFields

\* text with one character changed (one added when it is empty)
OneCharacterOff(text) ==
    IF text = <<>> THEN <<"x">> ELSE [text EXCEPT ![Len(text)] = "x"]

AlteredData(data, change) ==
    CASE change = "content_hash" ->
           [data EXCEPT !.content_hash = SHA256(OneCharacterOff(@[2]))]
      [] change = "session_id" -> [data EXCEPT !.session.id = @ + 1]
      [] change \in MetricsFields -> [data EXCEPT !.metrics[change] = @ + 1]
      [] change = "class_label" ->
           [data EXCEPT !.classification.class_label =
                IF @ = "human_organic" THEN "paste" ELSE "human_organic"]
      [] change = "is_human" -> [data EXCEPT !.classification.is_human = ~@]
      [] change = "confidence" ->
           [data EXCEPT !.classification.confidence = IF @ = 9900 THEN 0 ELSE 9900]
      [] change \in HistogramFields ->
           [data EXCEPT !.timing_data[change][1] = @ + 1]
      [] change \in SignatureFields -> [data EXCEPT !.signature[change] = Null]
      [] change = "key_not_base64" ->
           [data EXCEPT !.signature.public_key = Some(Bytes("spki", 1, Null))]
      [] change = "key_not_spki" ->
           [data EXCEPT !.signature.public_key = btoa(Bytes("garbage", 1, Null))]
      [] change = "signature_not_base64" ->
           [data EXCEPT !.signature.signature_value =
                             Some(Bytes("garbage", 1, Null))]
      [] change = "signature_garbage" ->
           [data EXCEPT !.signature.signature_value =
                             btoa(Bytes("garbage", 1, Null))]
      [] OTHER -> data

Altered(file, change) ==
    CASE change = "document" ->
           [file EXCEPT !.document = OneCharacterOff(@)]
      [] change = "null" -> [file EXCEPT !.metadata = Null]
      [] OTHER -> [file EXCEPT !.metadata = Some(AlteredData(Val(@), change))]

\* A bundle, as saved or with one change, is dropped on the decoder page
Decode ==
    \E i \in DOMAIN env.files, change \in Changes :
        LET upload == Some([file |-> i, change |-> change])
        IN /\ env.inputs > 0
           /\ env' = [env EXCEPT !.inputs = @ - 1,
                                 !.decoder = handleFile(Altered(env.files[i], change),
                                                        upload)]
           /\ last' = Step("decode", Null, TRUE)
           /\ UNCHANGED <<tracker, responses, state, stored, popup, clock, link>>

MaxSignMessages == 4

Documents == { <<"a", "b">> }

\* Batches as the tracker builds them: one typed key, one assistant insertion
SignBatches ==
    { handleKeyUp(handleKeyDown(Tracking, k), k).events : k \in {key \in Keys : Printable(key)} }
    \cup { synthesizeAiBurst(Tracking, 2, 3, 2).events }

SignInbox ==
    { PopupMsg("START_SESSION", 0) }
    \cup { Msg(0, "KEYSTROKE_BATCH", state.sessionId, evs, 0, Null, FALSE) :
              evs \in SignBatches }
    \cup { [PopupMsg("DOWNLOAD_COMBINED", 0) EXCEPT !.textContent = text] :
              text \in Documents }

SignReceives ==
    /\ env.inputs > 0
    /\ \E m \in SignInbox, api \in DownloadApis :
         PopupSend(m, api, "receive", [env EXCEPT !.inputs = @ - 1])
    /\ UNCHANGED <<popup, clock, link>>

InitSign == InitWith(InitEnv(MaxSignMessages, 0, 0, 0, 0, 0, 0))

NextSign == SignReceives \/ Decode

SpecSign == InitSign /\ [][NextSign]_vars

\* The bundle the decoder was given last, as it was downloaded, and what was
\* changed in it
Uploaded == env.files[Val(env.decoder.upload).file]

IsSigned(file) ==
    /\ ~IsNull(Val(file.metadata).signature.public_key)
    /\ ~IsNull(Val(file.metadata).signature.signature_value)

\* The last step gave the decoder a signed bundle with one of `changes`
Decoded(changes) ==
    /\ last.op = "decode"
    /\ IsSigned(Uploaded)
    /\ Val(env.decoder.upload).change \in changes

Status == env.decoder.verificationStatus

\* C16: a report signed by DOWNLOAD_COMBINED and given unchanged to the
\* decoder's verifySignature is `valid'; with content_hash, a metrics field or
\* the session id changed after signing it is `invalid'.
C16_SignatureRoundTrip ==
    /\ Decoded({"nothing"}) => Status = "valid"
    /\ Decoded({"content_hash", "session_id"} \cup MetricsFields)
          => Status = "invalid"

\* The decoder has accepted an unchanged report about recorded keystrokes
C16_UnchangedReportValid ==
    /\ Decoded({"nothing"})
    /\ Status = "valid"
    /\ Val(env.decoder.data).metrics.total_keystrokes > 0
    /\ Val(env.decoder.data).metrics.text_length > 0

\* The report the decoder was given last lacks the key or the signature
LacksSignature ==
    LET upload == Val(env.decoder.upload)
        file == Altered(env.files[upload.file], upload.change)
    IN \/ IsNull(file.metadata)
       \/ ~IsSigned(file)

Malformations ==
    {"key_not_base64", "key_not_spki", "signature_not_base64",
     "signature_garbage"}

\* C17: verifySignature always ends in exactly one of valid, invalid, none,
\* and no exception reaches its caller: none exactly when the public key or
\* the signature value is missing or empty, invalid when the material is
\* malformed or the check fails, valid only when the check succeeds.
C17_OneStatusNoException ==
    last.op = "decode"
        => /\ ~env.decoder.thrown
           /\ Status \in {"valid", "invalid", "none"}
           /\ Status = "none" <=> LacksSignature
           /\ Decoded(Malformations) => Status = "invalid"
           /\ Status = "valid" => Decoded({"nothing"} \cup ClassificationFields
                                          \cup HistogramFields \cup {"document"})

\* C17 for the reports that are JSON objects
C17_OneStatusForObjects ==
    last.op = "decode" /\ Val(env.decoder.upload).change # "null"
        => /\ ~env.decoder.thrown
           /\ Status \in {"valid", "invalid", "none"}
           /\ Status = "none" <=> LacksSignature
           /\ Decoded(Malformations) => Status = "invalid"

\* C18: a bundle whose document.txt differs by one character from the text
\* whose hash was signed is not reported as valid.
C18_AlteredDocumentRejected ==
    Decoded({"document"}) => Status # "valid"

\* C19: changing the classification (verdict, is_human, confidence) or a
\* timing histogram of a signed report makes the verification `invalid'.
C19_AnalysisResultTamperEvident ==
    Decoded(ClassificationFields \cup HistogramFields) => Status = "invalid"

\* C20: two reports signed by the same installation embed the same public key.
C20_OneKeyPerInstallation ==
    \A i, j \in DOMAIN env.files :
        IsSigned(env.files[i]) /\ IsSigned(env.files[j])
            => Val(env.files[i].metadata).signature.public_key
                 = Val(env.files[j].metadata).signature.public_key

\* The timestamps of evs never go down
NonDecreasing(evs) ==
    \A i \in 1..(Len(evs) - 1) :
        evs[i].client_timestamp <= evs[i + 1].client_timestamp

NoneNegative(samples) == \A i \in DOMAIN samples : samples[i] >= 0

\* C21: the events of a session, in the order the aggregate stores them and
\* calculateStats reads them, have non-decreasing timestamps, also around
\* assistant insertions and the input fallback; no dwell or flight sample is
\* negative.
C21_TimestampsNonDecreasing ==
    /\ NonDecreasing(state.keystrokes)
    /\ NoneNegative(DwellTimes(state.keystrokes))
    /\ NoneNegative(FlightTimes(state.keystrokes))

----------------------------------------------------------------------------
(* The worker's timing samples over what the key handlers record *)

MaxStatsMessages == 4
KeyGapMs == 10

KeyA == CHOOSE k \in Keys : Printable(k)
KeyShift == CHOOSE k \in Keys : ~Printable(k)

Down(k) == handleKeyDown(Tracking, k).events
Up(k) == handleKeyUp(Tracking, k).events

\* What the handlers record for: a key pressed and released; a key held down
\* (the browser repeats keydown); two keys rolled over; a key still down; a
\* key released that was pressed before; one press and release seen by the
\* window and the document listeners
KeyScripts ==
    { Down(KeyA) \o Up(KeyA),
      Down(KeyA) \o Down(KeyA) \o Up(KeyA),
      Down(KeyShift) \o Down(KeyA) \o Up(KeyA) \o Up(KeyShift),
      Down(KeyA),
      Up(KeyA),
      DispatchKeyUp(DispatchKeyDown([Tracking EXCEPT !.listeners = TRUE],
                                    KeyA, "page"), KeyA, "page").events }

\* The events of a script, captured KeyGapMs apart from time t on
Stamped(evs, t) ==
    [i \in DOMAIN evs |-> [evs[i] EXCEPT !.client_timestamp = t + KeyGapMs * i]]

\* A tracker sends batches once it has a session
StatsInbox ==
    { Msg(0, "KEYSTROKE_BATCH", state.sessionId,
          Stamped(evs, KeyGapMs * Len(state.keystrokes)), 0, Null, FALSE) :
        evs \in IF IsNull(state.sessionId) THEN {} ELSE KeyScripts }
    \cup { PopupMsg("START_SESSION", 0), PopupMsg("GET_STATS", 0) }

StatsReceives ==
    /\ env.inputs > 0
    /\ \E m \in StatsInbox :
         PopupSend(m, DefaultApi, "receive", [env EXCEPT !.inputs = @ - 1])
    /\ UNCHANGED <<popup, clock, link>>

InitStats == InitWith(InitEnv(MaxStatsMessages, 0, 0, 0, 0, 0, 0))

NextStats == StatsReceives

SpecStats == InitStats /\ [][NextStats]_vars

IsPress(evs, i) == evs[i].event_type = "keydown"
IsRelease(evs, i) == evs[i].event_type = "keyup"

\* The releases after press i that carry its key code
ReleasesOf(evs, i) ==
    {j \in (i + 1)..Len(evs) :
        IsRelease(evs, j) /\ evs[j].key_code = evs[i].key_code}

\* The presses that have a later release with the same key code
Released(evs) ==
    {i \in DOMAIN evs : IsPress(evs, i) /\ ReleasesOf(evs, i) # {}}

NextRelease(evs, i) ==
    CHOOSE j \in ReleasesOf(evs, i) : \A k \in ReleasesOf(evs, i) : j <= k

\* The k-th smallest element of a set of numbers
Nth(S, k) == CHOOSE x \in S : Cardinality({y \in S : y < x}) = k - 1

DwellExpected(evs) ==
    [k \in 1..Cardinality(Released(evs)) |->
        evs[NextRelease(evs, Nth(Released(evs), k))].client_timestamp
          - evs[Nth(Released(evs), k)].client_timestamp]

\* C22: calculateStats produces one dwell sample per press that has a later
\* release with the same key code, equal to the timestamp of the next such
\* release minus that of the press; each release is the match of one press
\* only; a press with no later release contributes no sample.
C22_DwellPerMatchedPress ==
    /\ DwellTimes(state.keystrokes) = DwellExpected(state.keystrokes)
    /\ \A i, j \in Released(state.keystrokes) :
          i # j => NextRelease(state.keystrokes, i)
                     # NextRelease(state.keystrokes, j)

\* C22 without the one-press-per-release part
C22_DwellIsNextRelease ==
    DwellTimes(state.keystrokes) = DwellExpected(state.keystrokes)

Presses(evs) == {i \in DOMAIN evs : IsPress(evs, i)}

\* The last release before event i (0 when there is none)
PrecedingRelease(evs, i) ==
    LET before == {j \in 1..(i - 1) : IsRelease(evs, j)}
    IN IF before = {} THEN 0 ELSE CHOOSE j \in before : \A k \in before : k <= j

\* C23: calculateStats produces a flight sample for every press except the
\* first press of the session, so there are presses - 1 samples; each equals
\* the press timestamp minus the timestamp of the immediately preceding
\* release.
C23_FlightPerPressButFirst ==
    LET evs == state.keystrokes
    IN Presses(evs) # {}
         => /\ Len(FlightTimes(evs)) = Cardinality(Presses(evs)) - 1
            /\ \A k \in 1..Len(FlightTimes(evs)) :
                 LET i == Nth(Presses(evs), k + 1)
                 IN /\ PrecedingRelease(evs, i) > 0
                    /\ FlightTimes(evs)[k] =
                         evs[i].client_timestamp
                           - evs[PrecedingRelease(evs, i)].client_timestamp

----------------------------------------------------------------------------
(* The feature extractor's burst detection *)

MaxKeystrokes == 6

\* `x or 999': None and 0 are falsy
Or999(x) == IF IsNull(x) THEN 999 ELSE IF Val(x) = 0 THEN 999 ELSE Val(x)

\* The for loop of detect_ai_bursts from key i on (i counts from 0)
RECURSIVE BurstScan(_, _, _, _)
BurstScan(keystrokes, i, consecutive_fast, burst_positions) ==
    IF i >= Len(keystrokes) THEN burst_positions
    ELSE IF /\ Or999(keystrokes[i + 1].dwell_time) < 8
            /\ Or999(keystrokes[i + 1].flight_time) < 8
    THEN BurstScan(keystrokes, i + 1, consecutive_fast + 1,
                   IF consecutive_fast + 1 = 5
                   THEN Append(burst_positions, i - 4) ELSE burst_positions)
    ELSE BurstScan(keystrokes, i + 1, 0, burst_positions)

BurstResult(keystrokes, burst_positions) ==
    [has_burst |-> Len(burst_positions) > 0,
     burst_count |-> Len(burst_positions),
     burst_positions |-> burst_positions,
     burst_severity |-> Ratio(Len(burst_positions),
                              IF Len(keystrokes) > 1 THEN Len(keystrokes) ELSE 1)]

detect_ai_bursts(keystrokes) ==
    BurstResult(keystrokes, BurstScan(keystrokes, 0, 0, <<>>))

\* A ProcessedKeystroke: its dwell and flight in ms, None when unknown
ProcessedKeystroke(dwell, flight) == [dwell_time |-> dwell, flight_time |-> flight]

ProcessedKeystrokes ==
    { ProcessedKeystroke(Some(3), Some(3)),     \* the synthetic insertion
      ProcessedKeystroke(Some(90), Some(120)),  \* a typed key
      ProcessedKeystroke(Some(3), Some(0)),     \* pressed as the last is released
      ProcessedKeystroke(Some(7), Null) }       \* no release came before it

\* One more key reaches the extractor, which analyses the stream again
ExtractBursts ==
    /\ Len(env.keystrokes) < MaxKeystrokes
    /\ \E k \in ProcessedKeystrokes :
         env' = [env EXCEPT !.keystrokes = Append(@, k),
                            !.bursts = Some(detect_ai_bursts(
                                          Append(env.keystrokes, k)))]
    /\ last' = Step("extract", Null, TRUE)
    /\ UNCHANGED <<tracker, responses, state, stored, popup, clock, link>>

InitBursts == InitWith(InitEnv(0, 0, 0, 0, 0, 0, 0))

NextBursts == ExtractBursts

SpecBursts == InitBursts /\ [][NextBursts]_vars

\* Key i (counted from 1) has dwell and flight both below 8 ms
IsFast(keys, i) ==
    /\ ~IsNull(keys[i].dwell_time) /\ Val(keys[i].dwell_time) < 8
    /\ ~IsNull(keys[i].flight_time) /\ Val(keys[i].flight_time) < 8

\* The 0-based start indexes of the unbroken fast runs of at least 5 keys
RunStarts(keys, fast(_, _)) ==
    {i \in 1..(Len(keys) - 4) :
        /\ \A j \in i..(i + 4) : fast(keys, j)
        /\ i = 1 \/ ~fast(keys, i - 1)}

Ascending(S) == [k \in 1..Cardinality(S) |-> Nth(S, k) - 1]

\* C24: a burst is reported exactly when the stream holds at least 5
\* consecutive keys with dwell and flight both below 8 ms; a run of 5 keys at
\* 3 ms is flagged, a run of 4 is not, a run reaching the end of the stream
\* counts once it has 5 keys, and an unbroken run is recorded once, with its
\* start index.
C24_BurstExactlyForFiveFastKeys ==
    ~IsNull(env.bursts)
        => /\ Val(env.bursts).has_burst <=> RunStarts(env.keystrokes, IsFast) # {}
           /\ Val(env.bursts).burst_positions
                = Ascending(RunStarts(env.keystrokes, IsFast))

\* C24 with a key counted as fast only when its dwell and flight are not 0
IsFastNotZero(keys, i) ==
    /\ IsFast(keys, i)
    /\ Val(keys[i].dwell_time) # 0 /\ Val(keys[i].flight_time) # 0

C24_BurstForFiveFastNonZeroKeys ==
    ~IsNull(env.bursts)
        => /\ Val(env.bursts).has_burst
                <=> RunStarts(env.keystrokes, IsFastNotZero) # {}
           /\ Val(env.bursts).burst_positions
                = Ascending(RunStarts(env.keystrokes, IsFastNotZero))

\* The session is active in the tracker
SessionActive == tracker.isTracking /\ ~IsNull(tracker.sessionId)

\* A flush will be attempted within the flush interval without further input:
\* the timer of scheduleFlush is pending and due by then
FlushPending ==
    /\ ~IsNull(tracker.flushTimeoutId)
    /\ Val(tracker.flushTimeoutId) <= now + FLUSH_INTERVAL_MS

\* C25: while a session is active, whenever the buffer holds at least 10
\* events a flush is attempted within the flush interval (500 ms) even if no
\* further input arrives, also for events left after a batch was cut and for
\* events returned to the buffer by a failed flush.
C25_FlushWithinInterval ==
    SessionActive /\ PageAlive /\ Len(tracker.events) >= MIN_FLUSH_SIZE
        => FlushPending

\* The batches in flight that the worker has not received: their flush still
\* waits, and the answer on its way is the `no response' of the runtime
Undelivered ==
    {m \in tracker.flushAwait :
        \E r \in responses : r.id = m.id /\ ~r.success}

RECURSIVE EventsIn(_)
EventsIn(batches) ==
    IF batches = {} THEN 0
    ELSE LET m == CHOOSE x \in batches : TRUE
         IN Len(m.events) + EventsIn(batches \ {m})

\* The captured events, place by place: buffered, in flight, delivered
Held == Len(tracker.events) + EventsIn(Undelivered) + Len(state.keystrokes)

Captures == {"keydown", "keyup", "paste", "input", "aiMessage"}

\* The tracker's session is the worker's, before and after the step, and the
\* tracker is not being stopped
SameSession ==
    /\ SessionActive /\ SessionActive' /\ PageAlive'
    /\ tracker'.stopAwait.pc = "none"
    /\ tracker'.sessionId = tracker.sessionId
    /\ state.sessionId = tracker.sessionId
    /\ state'.sessionId = tracker.sessionId

\* C26: events captured while a flush waits for its response are appended to
\* the buffer, and at every moment of an active session each captured event is
\* in exactly one place (buffered, in a batch in flight, in a delivered
\* batch): no step loses or duplicates one, whatever the interleaving of
\* captures, timer flushes, size-triggered flushes and failed flushes.
C26_EveryEventInOnePlace ==
    [][SameSession
         => /\ last'.op \in Captures
                 => /\ Held' >= Held
                    /\ tracker.flushAwait # {} /\ tracker'.flushAwait = tracker.flushAwait
                         => IsPrefix(tracker.events, tracker'.events)
            /\ last'.op \notin Captures => Held' = Held]_vars

----------------------------------------------------------------------------
(* The worker's wake-up: restoreState() awaits chrome.storage.session.get,  *)
(* so the listener's `await restoreState()` and the top-level call complete *)
(* one by one, in the order of their calls, each in a task of its own; the  *)
(* handler of a message runs right after the restore its listener awaited   *)

MaxWakeMessages == 4
MaxWakes == 1

\* The tracker sends batches and pastes only for a session it was given.
\* env.wake: the storage reads under way, each with the entry it will return
\* and the message (if any) whose listener awaits it
\* env.sent: how many messages the pages have sent, which numbers the batches
\* as the tracker's batchSequence++ does
\* env.applied: the batch_sequence of the session's batches, in the order in
\* which `case "KEYSTROKE_BATCH"` pushed them
InitWake ==
    InitWith(InitEnv(MaxWakeMessages, 0, MaxWakes, 0, 0, 0, 0)
             @@ [wake |-> <<>>, sent |-> 0, applied |-> <<>>])

StoredSession == IF IsNull(stored) THEN Null ELSE Val(stored).sessionId

WakeInbox ==
    { PopupMsg(type, 0) : type \in {"START_SESSION", "GET_STATS"} }
    \cup { Msg(0, "KEYSTROKE_BATCH", StoredSession, evs, 0, Null, FALSE) :
              evs \in IF IsNull(StoredSession) THEN {} ELSE SampleBatches }
    \cup { Msg(0, "PASTE_EVENT", StoredSession, <<>>, 0,
                Some(PasteEvent(n, now)), FALSE) :
              n \in IF IsNull(StoredSession) THEN {} ELSE PasteLengths \ {0} }

Sent(m) == [m EXCEPT !.batch_sequence = env.sent]

AppliedAfter(m) ==
    CASE m.type = "KEYSTROKE_BATCH" -> Append(env.applied, m.batch_sequence)
      [] m.type = "START_SESSION" -> <<>>
      [] OTHER -> env.applied

\* The listener: `if (!state.sessionId) await restoreState()` starts a storage
\* read; with a session in memory the handler runs at once
MessageArrives ==
    /\ env.inputs > 0
    /\ \E m \in WakeInbox, api \in StartApis :
         IF IsNull(state.sessionId)
         THEN /\ env' = [env EXCEPT !.inputs = @ - 1, !.sent = @ + 1,
                           !.wake = Append(@, [msg |-> Some(Sent(m)), api |-> api,
                                               value |-> stored])]
              /\ last' = Step("arrive", Null, TRUE)
              /\ UNCHANGED <<tracker, responses, state, stored>>
         ELSE Becomes(tracker,
                      Answered(Worker, Sent(m),
                               handleMessage(state, stored, Sent(m),
                                             Service(Worker, api))),
                      [env EXCEPT !.inputs = @ - 1, !.sent = @ + 1,
                                  !.applied = AppliedAfter(Sent(m))],
                      Step("receive", Null, TRUE))
    /\ UNCHANGED <<popup, clock, link>>

\* The oldest storage read returns: restoreState() assigns the entry it read
\* to the state, and the listener that awaited it calls handleMessage
RestoreCompletes ==
    /\ env.wake # <<>>
    /\ LET g == Head(env.wake)
           s1 == restoreState(state, g.value)
           e == [env EXCEPT !.wake = Tail(@)]
       IN IF IsNull(g.msg)
          THEN /\ state' = s1
               /\ env' = e
               /\ last' = Step("restored", Null, TRUE)
               /\ UNCHANGED <<tracker, responses, stored>>
          ELSE Becomes(tracker,
                       Answered(Worker, Val(g.msg),
                                handleMessage(s1, stored, Val(g.msg),
                                              Service(Worker, g.api))),
                       [e EXCEPT !.applied = AppliedAfter(Val(g.msg))],
                       Step("restored", Null, TRUE))
    /\ UNCHANGED <<popup, clock, link>>

\* The browser stops the idle worker and runs its script again: the state is
\* the initial one and the top-level restoreState() starts its storage read
WorkerWakes ==
    /\ env.suspends > 0
    /\ env.wake = <<>>
    /\ ~IsNull(stored)
    /\ state' = InitState
    /\ env' = [env EXCEPT !.suspends = @ - 1,
                 !.wake = <<[msg |-> Null, api |-> DefaultApi, value |-> stored]>>]
    /\ last' = Step("wake", Null, TRUE)
    /\ UNCHANGED <<tracker, responses, stored, popup, clock, link>>

NextWake == MessageArrives \/ RestoreCompletes \/ WorkerWakes

SpecWake == InitWake /\ [][NextWake]_vars

\* The aggregate's records after message m has been applied to state s
Applied(s, m) ==
    CASE m.type = "KEYSTROKE_BATCH" -> <<s.keystrokes \o m.events, s.pasteEvents>>
      [] m.type = "PASTE_EVENT" -> <<s.keystrokes, Append(s.pasteEvents, Val(m.event))>>
      [] OTHER -> Recorded(s)

\* C27: the state is restored before any message is processed: when several
\* messages arrive while the in-memory state is empty, no restoreState call
\* (the start-up one or one made for another message) completes after a
\* handler has changed the state, so every handler's change is kept and the
\* aggregate holds the effects of all the messages.
C27_NoRestoreAfterHandler ==
    [][(/\ last'.op = "restored"
        /\ ~IsNull(state.sessionId)
        /\ IsNull(last'.msg) \/ Val(last'.msg).type # "START_SESSION")
         => Recorded(state') =
              IF IsNull(last'.msg) THEN Recorded(state)
              ELSE Applied(state, Val(last'.msg))]_vars

----------------------------------------------------------------------------
\* The label DOWNLOAD_COMBINED writes into the report for the aggregate
ReportLabel(s) == Val(Classification(s)).class_label

\* Two labels say the same: the same label, or both a label of the gate
\* ("unverified" in the report, "waiting" in the statistics)
SameLabel(a, b) == a = b \/ (a \in NeutralLabels /\ b \in NeutralLabels)

\* C28: for every aggregate state the classification label that
\* DOWNLOAD_COMBINED writes equals the currentVerdict GET_STATS returns for
\* the same state, for every total, a total of exactly 20 included.
C28_ReportLabelIsStatsVerdict ==
    SameLabel(ReportLabel(state), StatsVerdict(state))

----------------------------------------------------------------------------
RECURSIVE Increasing(_)
Increasing(seq) ==
    Len(seq) < 2 \/ (seq[1] < seq[2] /\ Increasing(Tail(seq)))

\* C29: the worker receives a session's events in capture order: the batches
\* in the order in which they are applied are in batch_sequence order, which
\* is the order of capture, also when flushes overlap or a flush is repeated.
C29_BatchesAppliedInCaptureOrder == Increasing(env.applied)

----------------------------------------------------------------------------
(* The worker and the trackers of several tabs: each tab's content script   *)
(* starts a session of its own and goes on sending under the id it got      *)

MaxSessionMessages == 4

\* The session ids the worker has given out
SessionsGiven == { SessionIdOf(n) : n \in 1..env.sessions }

SessionInbox ==
    { PopupMsg(type, 0) : type \in {"START_SESSION", "GET_STATS"} }
    \cup { Msg(0, "KEYSTROKE_BATCH", sid, evs, 0, Null, FALSE) :
              sid \in SessionsGiven, evs \in SampleBatches }
    \cup { Msg(0, "PASTE_EVENT", sid, <<>>, 0, Some(PasteEvent(n, now)), FALSE) :
              sid \in SessionsGiven, n \in PasteLengths \ {0} }

SessionReceives ==
    /\ env.inputs > 0
    /\ \E m \in SessionInbox :
         PopupSend(m, DefaultApi, "receive", [env EXCEPT !.inputs = @ - 1])
    /\ UNCHANGED <<popup, clock, link>>

InitSessions == InitWith(InitEnv(MaxSessionMessages, 0, 0, 0, 0, 0, 0))

NextSessions == SessionReceives

SpecSessions == InitSessions /\ [][NextSessions]_vars

\* C30: a KEYSTROKE_BATCH or PASTE_EVENT whose session_id is not the
\* aggregate's current session id leaves the current session's events, paste
\* events and ledger counters as they were.
C30_OtherSessionLeavesAggregate ==
    [][(/\ last'.op # "flushResolved"
        /\ ~IsNull(last'.msg)
        /\ Val(last'.msg).type \in {"KEYSTROKE_BATCH", "PASTE_EVENT"}
        /\ Val(last'.msg).session_id # state.sessionId)
         => /\ Recorded(state') = Recorded(state)
            /\ Ledger(state') = Ledger(state)]_vars

====
